---- MODULE Spec2Model ----
(***************************************************************************)
(* Model of the sheet ingestion pipeline of Campaign-Details:              *)
(*   src/lib/sheetUtils.ts    parseCSVRow, fetchSheetData                  *)
(*   src/unnamed/part_000     FORM_FIELDS, FIELD_MAPPING, findColumnHeader,*)
(*                            validateSheetStructure                       *)
(*   src/unnamed/part_001     the naive split-and-trim parser of the view  *)
(*                            page, and the per-sheet page ViewDetailPage  *)
(* A JavaScript string is modelled as the sequence of its characters, each *)
(* character a one-character TLA+ string, so that trimming, lower-casing,  *)
(* substring search and the character scan of parseCSVRow are computed as  *)
(* the code computes them.                                                 *)
(***************************************************************************)
EXTENDS Integers, Sequences, FiniteSets, TLC

VARIABLES
    \* --- one call of parseCSVRow, scanned one loop iteration at a time
    row,        \* the argument of parseCSVRow
    scan,       \* its locals: [i, current, inQuotes, values]
    ppc,        \* "idle" | "loop" | "done"
    ret,        \* the array parseCSVRow returned (<<>> before it returns)
    \* --- one call of fetchSheetData
    fpc,        \* "idle" | "fetching" | "reading" | "done"
    response,   \* what the HTTP request produced
    result,     \* the object fetchSheetData resolved with
    settled,    \* "pending" | "resolved" | "rejected": the returned promise
    kept,       \* per record pushed to parsedData: the row it came from
    \* --- one call of validateSheetStructure, one forEach callback at a time
    validation, \* its argument, its locals and the report it returned
    \* --- two calls of fetchSheetData whose requests are outstanding together
    runs,       \* per call: its position, response, seen set and result
    \* --- the per-sheet view page (ViewDetailPage)
    view,       \* the page's React state and the effects it has started
    \* --- the campaign form (ContactPage)
    form,       \* its React state, what is rendered, the webhook requests
    \* --- a dashboard page (DashboardPage, either of the two)
    dash        \* its React state and its load effect

pvars == <<row, scan, ppc, ret>>
fvars == <<fpc, response, result, settled, kept>>
xvars == <<validation, runs, view, form, dash>>
vars == <<row, scan, ppc, ret, fpc, response, result, settled, kept,
          validation, runs, view, form, dash>>

(***************************************************************************)
(* Strings                                                                 *)
(***************************************************************************)
\* The characters of a string literal, in order.
Chars(s) == [k \in 1..Len(s) |-> SubSeq(s, k, k)]

QUOTE == "\""
COMMA == ","
NEWLINE == "\n"

\* The characters String.prototype.trim removes that occur in the model.
WhiteSpace == {" ", "\t", "\r", "\n"}

UpperCase == Chars("ABCDEFGHIJKLMNOPQRSTUVWXYZ")
LowerCase == Chars("abcdefghijklmnopqrstuvwxyz")

toLowerChar(c) ==
    IF \E k \in 1..Len(UpperCase) : UpperCase[k] = c
    THEN LowerCase[CHOOSE k \in 1..Len(UpperCase) : UpperCase[k] = c]
    ELSE c

\* String.prototype.toLowerCase
toLowerCase(s) == [k \in 1..Len(s) |-> toLowerChar(s[k])]

\* String.prototype.trim
TrimTo(s, keep) ==
    IF keep = {} THEN <<>>
    ELSE SubSeq(s, CHOOSE a \in keep : \A b \in keep : a <= b,
                   CHOOSE a \in keep : \A b \in keep : a >= b)

trim(s) == TrimTo(s, {k \in 1..Len(s) : s[k] \notin WhiteSpace})

\* String.prototype.includes
includes(s, sub) ==
    \E k \in 0..(Len(s) - Len(sub)) : SubSeq(s, k + 1, k + Len(sub)) = sub

\* String.prototype.startsWith
startsWith(s, prefix) ==
    Len(prefix) <= Len(s) /\ SubSeq(s, 1, Len(prefix)) = prefix

\* s.replace(/"/g, '')
stripQuotes(s) == SelectSeq(s, LAMBDA c : c # QUOTE)

\* String.prototype.split with a one-character separator
RECURSIVE split(_, _)
split(s, sep) ==
    IF \A k \in 1..Len(s) : s[k] # sep THEN <<s>>
    ELSE LET p == CHOOSE k \in 1..Len(s) :
                      s[k] = sep /\ \A j \in 1..(k - 1) : s[j] # sep
         IN <<SubSeq(s, 1, p - 1)>> \o split(SubSeq(s, p + 1, Len(s)), sep)

\* The least element of a set of positions, 0 when there is none.
FirstOf(S) == IF S = {} THEN 0 ELSE CHOOSE k \in S : \A j \in S : k <= j

\* Array.prototype.map
map(f(_), a) == [k \in 1..Len(a) |-> f(a[k])]

\* Array.prototype.findIndex, 1-based; 0 stands for JavaScript's -1
findIndex(a, P(_)) == FirstOf({k \in 1..Len(a) : P(a[k])})

(***************************************************************************)
(* parseCSVRow                                                             *)
(***************************************************************************)
\* The locals of parseCSVRow before the loop (i is 1-based here).
ScanStart == [i |-> 1, current |-> <<>>, inQuotes |-> FALSE, values |-> <<>>]

\* A body that lets every comma end a field, quoted or not.
LoopBodyCommaAlwaysSplits(r, s) ==
    LET char == r[s.i]
        nextIsQuote == s.i + 1 <= Len(r) /\ r[s.i + 1] = QUOTE
    IN IF char = QUOTE /\ nextIsQuote
       THEN [s EXCEPT !.current = Append(@, QUOTE), !.i = @ + 2]
       ELSE IF char = QUOTE
       THEN [s EXCEPT !.inQuotes = ~@, !.i = @ + 1]
       ELSE IF char = COMMA
       THEN [s EXCEPT !.values = Append(@, trim(s.current)),
                      !.current = <<>>, !.i = @ + 1]
       ELSE [s EXCEPT !.current = Append(@, char), !.i = @ + 1]

\* A body in which a doubled quote also closes the quoted region.
LoopBodyEscapeCloses(r, s) ==
    LET char == r[s.i]
        nextIsQuote == s.i + 1 <= Len(r) /\ r[s.i + 1] = QUOTE
    IN IF char = QUOTE /\ nextIsQuote
       THEN [s EXCEPT !.current = Append(@, QUOTE), !.inQuotes = FALSE,
                      !.i = @ + 2]
       ELSE IF char = QUOTE
       THEN [s EXCEPT !.inQuotes = ~@, !.i = @ + 1]
       ELSE IF char = COMMA /\ ~s.inQuotes
       THEN [s EXCEPT !.values = Append(@, trim(s.current)),
                      !.current = <<>>, !.i = @ + 1]
       ELSE [s EXCEPT !.current = Append(@, char), !.i = @ + 1]

\* A body that pushes the field without trimming it.
LoopBodyNoTrim(r, s) ==
    LET char == r[s.i]
        nextIsQuote == s.i + 1 <= Len(r) /\ r[s.i + 1] = QUOTE
    IN IF char = QUOTE /\ nextIsQuote
       THEN [s EXCEPT !.current = Append(@, QUOTE), !.i = @ + 2]
       ELSE IF char = QUOTE
       THEN [s EXCEPT !.inQuotes = ~@, !.i = @ + 1]
       ELSE IF char = COMMA /\ ~s.inQuotes
       THEN [s EXCEPT !.values = Append(@, s.current),
                      !.current = <<>>, !.i = @ + 1]
       ELSE [s EXCEPT !.current = Append(@, char), !.i = @ + 1]

\* One iteration of the for loop, the i++ of the loop header included.
LoopBody(r, s) ==
    LET char == r[s.i]
        nextIsQuote == s.i + 1 <= Len(r) /\ r[s.i + 1] = QUOTE
    IN IF char = QUOTE /\ nextIsQuote
       THEN [s EXCEPT !.current = Append(@, QUOTE), !.i = @ + 2]
       ELSE IF char = QUOTE
       THEN [s EXCEPT !.inQuotes = ~@, !.i = @ + 1]
       ELSE IF char = COMMA /\ ~s.inQuotes
       THEN [s EXCEPT !.values = Append(@, trim(s.current)),
                      !.current = <<>>, !.i = @ + 1]
       ELSE [s EXCEPT !.current = Append(@, char), !.i = @ + 1]

\* values.push(current.trim()); return values
LoopExit(s) == Append(s.values, trim(s.current))

RECURSIVE ScanFrom(_, _)
ScanFrom(r, s) ==
    IF s.i > Len(r) THEN LoopExit(s) ELSE ScanFrom(r, LoopBody(r, s))

\* The whole call, as fetchSheetData uses it.
parseCSVRow(r) == ScanFrom(r, ScanStart)

\* rows[0].split(',').map(h => h.trim().replace(/"/g, ''))
NaiveSplit(r) == map(LAMBDA f : stripQuotes(trim(f)), split(r, COMMA))

(***************************************************************************)
(* Inputs of the parser specification                                      *)
(***************************************************************************)
\* Longest line given to parseCSVRow on its own.
MaxLineLen == 5

LineAlphabet == {"a", COMMA, QUOTE, " "}

RECURSIVE LinesUpTo(_)
LinesUpTo(n) ==
    IF n = 0 THEN {<<>>}
    ELSE LET shorter == LinesUpTo(n - 1)
         IN shorter \cup {Append(l, c) : l \in {x \in shorter : Len(x) = n - 1},
                                        c \in LineAlphabet}

Lines == LinesUpTo(MaxLineLen)

\* parseCSVRow is not called on its own.
ParseIdle ==
    /\ row = <<>>
    /\ scan = ScanStart
    /\ ppc = "idle"
    /\ ret = <<>>

\* The result variable before fetchSheetData has returned.
NoResult == [data |-> <<>>, headers |-> <<>>, error |-> <<>>]

FetchIdle ==
    /\ fpc = "idle"
    /\ response = [kind |-> "none"]
    /\ result = NoResult
    /\ settled = "pending"
    /\ kept = <<>>

\* validateSheetStructure is not called.
ValidateIdle == validation = [pc |-> "idle"]

\* No second call of fetchSheetData is under way.
RunsIdle == runs = <<>>

\* No view page is mounted.
ViewIdle == view = [pc |-> "idle"]

\* No form page is mounted.
FormIdle == form = [pc |-> "idle"]

\* No dashboard page is mounted.
DashIdle == dash = [pc |-> "idle"]

InitParse ==
    /\ row \in Lines
    /\ scan = ScanStart
    /\ ppc = "loop"
    /\ ret = <<>>
    /\ FetchIdle
    /\ ValidateIdle
    /\ RunsIdle
    /\ ViewIdle
    /\ FormIdle
    /\ DashIdle

\* for (let i = 0; i < row.length; i++) { ... }
ParseLoop ==
    /\ ppc = "loop"
    /\ scan.i <= Len(row)
    /\ scan' = LoopBody(row, scan)
    /\ UNCHANGED <<row, ppc, ret>>
    /\ UNCHANGED fvars
    /\ UNCHANGED xvars

\* values.push(current.trim()); return values;
ParseReturn ==
    /\ ppc = "loop"
    /\ scan.i > Len(row)
    /\ ret' = LoopExit(scan)
    /\ ppc' = "done"
    /\ UNCHANGED <<row, scan>>
    /\ UNCHANGED fvars
    /\ UNCHANGED xvars

NextParse == ParseLoop \/ ParseReturn

SpecParse == InitParse /\ [][NextParse]_vars

\* The call is not suspended: the loop goes on until it returns.
SpecParseLive == SpecParse /\ WF_vars(NextParse)

(***************************************************************************)
(* The canonical schema (fieldMapping)                                     *)
(***************************************************************************)
Field(formKey, displayName, required) ==
    [formKey |-> Chars(formKey), displayName |-> Chars(displayName),
     required |-> required]

FORM_FIELDS == <<
    Field("campaignName", "Campaign Name", TRUE),
    Field("influencersFollowers", "Influencers Followers", TRUE),
    Field("campaignType", "Campaign Type", TRUE),
    Field("startDate", "Start Date", TRUE),
    Field("brandName", "Brand Name", TRUE),
    Field("endDate", "End Date", TRUE),
    Field("niche", "Niche", TRUE),
    Field("priority", "Priority", TRUE),
    Field("budget", "Budget", TRUE),
    Field("notes", "Notes", FALSE),
    Field("deliverables", "Deliverables", TRUE),
    Field("platforms", "Platforms", TRUE),
    Field("attachment", "Attachment", FALSE),
    Field("timestamp", "Submission Date", FALSE) >>

EXPECTED_SHEET_HEADERS == map(LAMBDA fld : fld.displayName, FORM_FIELDS)

\* The aliases of each display name, in declaration order.
FIELD_MAPPING == <<
    map(Chars, <<"campaign name", "campaign_name", "campaignname", "campaign">>),
    map(Chars, <<"influencers followers", "influencers_followers",
                 "influencersfollowers", "followers", "influencer count">>),
    map(Chars, <<"campaign type", "campaign_type", "campaigntype", "type">>),
    map(Chars, <<"start date", "start_date", "startdate", "start",
                 "campaign start">>),
    map(Chars, <<"brand name", "brand_name", "brandname", "brand">>),
    map(Chars, <<"end date", "end_date", "enddate", "end", "campaign end">>),
    map(Chars, <<"niche", "category", "industry">>),
    map(Chars, <<"priority", "urgency", "level">>),
    map(Chars, <<"budget", "amount", "cost", "price">>),
    map(Chars, <<"notes", "comments", "description", "additional info">>),
    map(Chars, <<"deliverables", "requirements", "scope", "what to deliver">>),
    map(Chars, <<"platforms", "social media", "channels", "platform">>),
    map(Chars, <<"attachment", "file", "document", "upload">>),
    map(Chars, <<"submission date", "submission_date", "submissiondate",
                 "timestamp", "created", "date submitted">>) >>

\* JavaScript's null and undefined: no string is equal to it.
Null == <<"null">>

\* What an if (x) or an x || y takes x for: a string that is not empty.
Truthy(x) == x # Null /\ x # <<>>

ElementOrNull(a, k) == IF k = 0 THEN Null ELSE a[k]

\* Array.prototype.find: the first element satisfying P, or undefined
find(a, P(_)) == ElementOrNull(a, findIndex(a, P))

\* The for loop over the variations, from the v-th on:
\*   const match = sheetHeaders.find(...); if (match) return match;
RECURSIVE VariationLoop(_, _, _)
RECURSIVE VariationStep(_, _, _, _)
VariationStep(variations, v, sheetHeaders, match) ==
    IF Truthy(match) THEN match
    ELSE VariationLoop(variations, v + 1, sheetHeaders)

VariationLoop(variations, v, sheetHeaders) ==
    IF v > Len(variations) THEN Null
    ELSE VariationStep(variations, v, sheetHeaders,
             find(sheetHeaders,
                  LAMBDA header :
                      \/ includes(toLowerCase(header), toLowerCase(variations[v]))
                      \/ includes(toLowerCase(variations[v]), toLowerCase(header))))

\* if (exactMatch) return exactMatch;  then the variations
CaseInsensitiveTier(exactMatch, variations, sheetHeaders) ==
    IF Truthy(exactMatch) THEN exactMatch
    ELSE VariationLoop(variations, 1, sheetHeaders)

\* The three tiers, for the field with this displayName and these aliases.
MatchTiers(displayName, variations, sheetHeaders) ==
    IF \E k \in 1..Len(sheetHeaders) : sheetHeaders[k] = displayName
    THEN displayName
    ELSE CaseInsensitiveTier(
             find(sheetHeaders,
                  LAMBDA header : toLowerCase(header) = toLowerCase(displayName)),
             variations, sheetHeaders)

\* FORM_FIELDS.find(f => f.formKey === formFieldName), as a position (0: none)
FieldWithKey(formFieldName) ==
    findIndex(FORM_FIELDS, LAMBDA fld : fld.formKey = formFieldName)

\* if (!field) return null;  then the tiers
HeaderOfField(f, sheetHeaders) ==
    IF f = 0 THEN Null
    ELSE MatchTiers(FORM_FIELDS[f].displayName, FIELD_MAPPING[f], sheetHeaders)

findColumnHeader(formFieldName, sheetHeaders) ==
    HeaderOfField(FieldWithKey(formFieldName), sheetHeaders)

(***************************************************************************)
(* validateSheetStructure                                                  *)
(***************************************************************************)
\* const found = findColumnHeader(field.formKey, sheetHeaders), which is
\* evaluated for the required fields only (Null stands for "not evaluated").
FoundFor(field, sheetHeaders) ==
    IF field.required THEN findColumnHeader(field.formKey, sheetHeaders)
    ELSE Null

\* A check that lists every field without a header, required or not.
MissingAfterAnyField(missingFields, field, found) ==
    IF ~Truthy(found) THEN Append(missingFields, field.displayName)
    ELSE missingFields

\* if (field.required) { ... if (!found) missingFields.push(field.displayName) }
MissingAfter(missingFields, field, found) ==
    IF field.required /\ ~Truthy(found)
    THEN Append(missingFields, field.displayName)
    ELSE missingFields

\* FORM_FIELDS.some(field => field.displayName === header)
isExpected(header) ==
    \E f \in 1..Len(FORM_FIELDS) : FORM_FIELDS[f].displayName = header

\* FORM_FIELDS.find(f => f.displayName.toLowerCase().includes(header...) ||
\*                       header.toLowerCase().includes(f.displayName...)),
\* as a position (0: none)
SuggestedField(header) ==
    findIndex(FORM_FIELDS,
              LAMBDA fld :
                  \/ includes(toLowerCase(fld.displayName), toLowerCase(header))
                  \/ includes(toLowerCase(header), toLowerCase(fld.displayName)))

\* if (field) suggestions[header] = field.displayName
Suggest(suggestions, header, f) ==
    IF f = 0 THEN suggestions
    ELSE (header :> FORM_FIELDS[f].displayName) @@ suggestions

\* if (!isExpected) { extraFields.push(header); ... }
ExtraAfter(v, header, expected, f) ==
    IF expected THEN v
    ELSE [v EXCEPT !.extraFields = Append(@, header),
                   !.suggestions = Suggest(@, header, f)]

\* A report that is valid only without missing and without extra fields.
ReportStrict(v) ==
    [isValid |-> Len(v.missingFields) = 0 /\ Len(v.extraFields) = 0,
     missingFields |-> v.missingFields,
     extraFields |-> v.extraFields,
     suggestions |-> v.suggestions]

\* return { isValid: missingFields.length === 0, missingFields, extraFields,
\*          suggestions }
Report(v) ==
    [isValid |-> Len(v.missingFields) = 0,
     missingFields |-> v.missingFields,
     extraFields |-> v.extraFields,
     suggestions |-> v.suggestions]

\* The report variable before validateSheetStructure has returned.
NoReport ==
    [isValid |-> FALSE, missingFields |-> <<>>, extraFields |-> <<>>,
     suggestions |-> <<>>]

\* The locals of validateSheetStructure before the first forEach; f and h
\* are the positions the two forEach loops have reached.
ValidateStart(sheetHeaders) ==
    [pc |-> "loops", sheetHeaders |-> sheetHeaders, f |-> 1, h |-> 1,
     found |-> Null, missingFields |-> <<>>, extraFields |-> <<>>,
     suggestions |-> <<>>, report |-> NoReport]

(***************************************************************************)
(* Inputs of the validation specification: the observed header rows        *)
(***************************************************************************)
\* Most headers in a header row built from the vocabulary.
MaxHeaders == 2

HeaderVocabulary == {
    Chars("Budget"), Chars("budget"), Chars("cost"), Chars(""),
    Chars("Campaign Name"), Chars("Brand Name"), Chars("Extra Col"),
    Chars("Date") }

RECURSIVE HeaderListsUpTo(_)
HeaderListsUpTo(n) ==
    IF n = 0 THEN {<<>>}
    ELSE LET shorter == HeaderListsUpTo(n - 1)
         IN shorter \cup {Append(l, h) : l \in {x \in shorter : Len(x) = n - 1},
                                        h \in HeaderVocabulary}

\* The header rows of a sheet made from the template, as it is and with one
\* more column, and of a sheet with two of the template's columns.
TemplateHeaderLists ==
    {EXPECTED_SHEET_HEADERS,
     Append(EXPECTED_SHEET_HEADERS, Chars("Extra Col")),
     <<Chars("Campaign Name"), Chars("Brand Name"), Chars("Extra Col")>>}

HeaderLists == HeaderListsUpTo(MaxHeaders) \cup TemplateHeaderLists

InitValidate ==
    /\ validation \in {ValidateStart(sheetHeaders) : sheetHeaders \in HeaderLists}
    /\ ParseIdle
    /\ FetchIdle
    /\ RunsIdle
    /\ ViewIdle
    /\ FormIdle
    /\ DashIdle

\* One callback of  FORM_FIELDS.forEach(field => { ... })
CheckField ==
    /\ validation.pc = "loops"
    /\ validation.f <= Len(FORM_FIELDS)
    /\ \E found \in {FoundFor(FORM_FIELDS[validation.f], validation.sheetHeaders)} :
           validation' =
               [validation EXCEPT
                    !.found = found,
                    !.missingFields =
                        MissingAfter(@, FORM_FIELDS[validation.f], found),
                    !.f = @ + 1]
    /\ UNCHANGED <<pvars, fvars, runs, view, form, dash>>

\* One callback of  sheetHeaders.forEach(header => { ... })
CheckHeader ==
    /\ validation.pc = "loops"
    /\ validation.f > Len(FORM_FIELDS)
    /\ validation.h <= Len(validation.sheetHeaders)
    /\ \E header \in {validation.sheetHeaders[validation.h]} :
           validation' =
               [ExtraAfter(validation, header, isExpected(header),
                           SuggestedField(header))
                    EXCEPT !.h = @ + 1]
    /\ UNCHANGED <<pvars, fvars, runs, view, form, dash>>

\* return { isValid, missingFields, extraFields, suggestions }
ReturnReport ==
    /\ validation.pc = "loops"
    /\ validation.f > Len(FORM_FIELDS)
    /\ validation.h > Len(validation.sheetHeaders)
    /\ validation' = [validation EXCEPT !.report = Report(validation),
                                        !.pc = "done"]
    /\ UNCHANGED <<pvars, fvars, runs, view, form, dash>>

NextValidate == CheckField \/ CheckHeader \/ ReturnReport

SpecValidate == InitValidate /\ [][NextValidate]_vars

(***************************************************************************)
(* fetchSheetData: the synchronous part, from the CSV text to the result   *)
(***************************************************************************)
\* A filter that drops the empty lines only.
NonBlankRowsKeepsWhitespace(csvText) ==
    SelectSeq(split(csvText, NEWLINE), LAMBDA r : r # <<>>)

\* csvText.split('\n').filter(row => row.trim())
NonBlankRows(csvText) ==
    SelectSeq(split(csvText, NEWLINE), LAMBDA r : trim(r) # <<>>)

\* parseCSVRow(line).map(v => v.replace(/"/g, ''))
Cells(line) == map(stripQuotes, parseCSVRow(line))

\* Does the text contain one of the patterns.
includesAny(s, patterns) == \E pat \in patterns : includes(s, pat)

\* A search that knows the spelling with a space only.
emailTemplateIndexSpacedOnly(headerRow) ==
    findIndex(headerRow,
              LAMBDA h : includes(toLowerCase(h), Chars("email template")))

emailTemplateIndex(headerRow) ==
    findIndex(headerRow,
              LAMBDA h : includesAny(toLowerCase(h),
                             {Chars("email template"), Chars("emailtemplate")}))

idColumnIndex(headerRow) ==
    findIndex(headerRow,
              LAMBDA h : toLowerCase(h) \in
                             {Chars("id"), Chars("campaign id"), Chars("record id")})

sheetIdIndex(headerRow) ==
    findIndex(headerRow,
              LAMBDA h : includesAny(toLowerCase(h),
                             {Chars("sheet id"), Chars("sheetid")}))

\* A filter that forgets the id column.
ExcludeColumnsKeepsId(a, x) ==
    map(LAMBDA k : a[k],
        SelectSeq([k \in 1..Len(a) |-> k],
                  LAMBDA k : k # x.email /\ k # x.sheet))

\* a.filter((_, idx) => idx !== emailTemplateIndex && idx !== idColumnIndex
\*                       && idx !== sheetIdIndex)
\* with x the three indexes.
ExcludeColumns(a, x) ==
    map(LAMBDA k : a[k],
        SelectSeq([k \in 1..Len(a) |-> k],
                  LAMBDA k : k # x.email /\ k # x.id /\ k # x.sheet))

\* The three indexes found in the header row, before the loop over the rows.
ExcludedIndexes(headerRow) ==
    [email |-> emailTemplateIndex(headerRow),
     id |-> idColumnIndex(headerRow),
     sheet |-> sheetIdIndex(headerRow)]

SHEET_ID_KEY == Chars("_sheetId")

\* x || y
OrElse(x, y) == IF Truthy(x) THEN x ELSE y

\* findColumnHeader(header, EXPECTED_SHEET_HEADERS) || header
mappedHeader(header) ==
    OrElse(findColumnHeader(header, EXPECTED_SHEET_HEADERS), header)

\* A lookup without the default: undefined beyond the end of the row.
ValueAtNoDefault(filteredValues, idx) ==
    IF idx <= Len(filteredValues) THEN filteredValues[idx] ELSE Null

\* filteredValues[idx] || ''
ValueAt(filteredValues, idx) ==
    IF idx <= Len(filteredValues) THEN filteredValues[idx] ELSE <<>>

\* An assignment that leaves a key already written as it is.
AssignFirstWins(acc, key, value) ==
    [rowData |-> acc.rowData @@ (key :> value), rowKey |-> acc.rowKey \o value]

\* rowData[key] = value; rowKey += value;
Assign(acc, key, value) ==
    [rowData |-> (key :> value) @@ acc.rowData, rowKey |-> acc.rowKey \o value]

\* The forEach over filteredHeaders from position idx on: rowData and rowKey.
RECURSIVE MapValues(_, _, _, _)
MapValues(filteredHeaders, filteredValues, idx, acc) ==
    IF idx > Len(filteredHeaders) THEN acc
    ELSE MapValues(filteredHeaders, filteredValues, idx + 1,
                   Assign(acc, mappedHeader(filteredHeaders[idx]),
                          ValueAt(filteredValues, idx)))

\* sheetIdIndex !== -1 ? values[sheetIdIndex] : ''   (undefined, beyond the
\* end of a short row, is as falsy as '')
SheetIdValue(values, sid) ==
    IF sid # 0 /\ sid <= Len(values) THEN values[sid] ELSE <<>>

\* if (sheetIdValue) rowData['_sheetId'] = sheetIdValue
WithSheetId(rowData, sheetIdValue) ==
    IF Truthy(sheetIdValue) THEN (SHEET_ID_KEY :> sheetIdValue) @@ rowData
    ELSE rowData

\* filteredValues.every(v => !v || v.trim() === '')
EveryBlank(filteredValues) ==
    \A k \in 1..Len(filteredValues) : trim(filteredValues[k]) = <<>>

\* The row once mapped: rowData completed with the sheet id, and rowKey.
Mapped(acc, sheetIdValue) ==
    [rowData |-> WithSheetId(acc.rowData, sheetIdValue), rowKey |-> acc.rowKey]

\* A body that reads the sheet id after the excluded columns are removed.
RowMappedSheetIdAfterFilter(values, filteredValues, hdr) ==
    Mapped(MapValues(hdr.filteredHeaders, filteredValues, 1,
                     [rowData |-> <<>>, rowKey |-> <<>>]),
           SheetIdValue(filteredValues, hdr.x.sheet))

\* The body of the loop for one row, given its values and filtered values.
RowMapped(values, filteredValues, hdr) ==
    Mapped(MapValues(hdr.filteredHeaders, filteredValues, 1,
                     [rowData |-> <<>>, rowKey |-> <<>>]),
           SheetIdValue(values, hdr.x.sheet))

\* A push that does not look at the seen keys.
PushAlways(acc, r, i) ==
    [parsedData |-> Append(acc.parsedData, r.rowData),
     seen |-> acc.seen \cup {r.rowKey},
     kept |-> Append(acc.kept, i)]

\* if (!seen.has(rowKey)) { seen.add(rowKey); parsedData.push(rowData); }
PushUnlessSeen(acc, r, i) ==
    IF r.rowKey \in acc.seen THEN acc
    ELSE [parsedData |-> Append(acc.parsedData, r.rowData),
          seen |-> acc.seen \cup {r.rowKey},
          kept |-> Append(acc.kept, i)]

\* if (filteredValues.every(...)) continue;  else map the row and push it
RowStep(acc, values, filteredValues, hdr, i) ==
    IF EveryBlank(filteredValues) THEN acc
    ELSE PushUnlessSeen(acc, RowMapped(values, filteredValues, hdr), i)

RowValues(acc, values, hdr, i) ==
    RowStep(acc, values, ExcludeColumns(values, hdr.x), hdr, i)

\* for (let i = 1; i < rows.length; i++) { ... }   (rows is 1-based here)
RECURSIVE RowLoop(_, _, _, _)
RowLoop(rows, hdr, i, acc) ==
    IF i > Len(rows) THEN acc
    ELSE RowLoop(rows, hdr, i + 1, RowValues(acc, Cells(rows[i]), hdr, i))

\* A test that knows the <HTML> marker only.
LooksLikeHtmlTagOnly(text) == startsWith(text, Chars("<HTML>"))

\* The test that the text is a login page and not CSV.
LooksLikeHtml(text) ==
    startsWith(text, Chars("<HTML>")) \/ startsWith(text, Chars("<!DOCTYPE"))

\* The catch block: { data: [], headers: [], error: message }
Caught(message) == [data |-> <<>>, headers |-> <<>>, error |-> message]

Thrown(message) == [result |-> Caught(message), kept |-> <<>>, seen |-> {}]

\* return { data: parsedData, headers: filteredHeaders }
\* (with the result, what the call leaves in its set of seen keys)
Returned(out, hdr) ==
    [result |-> [data |-> out.parsedData, headers |-> hdr.filteredHeaders,
                 error |-> <<>>],
     kept |-> out.kept,
     seen |-> out.seen]

\* A set of seen keys kept outside the call: it holds what the other calls
\* have put in theirs.
SeenShared(others) == others

\* const seen = new Set<string>(): a set of the call's own, empty whatever
\* the other calls have put in theirs.
SeenNew(others) == {}

\* const parsedData = []; const seen = ...; for (...) { ... }; return ...
IngestTable(rows, hdr, seen) ==
    Returned(RowLoop(rows, hdr, 2,
                     [parsedData |-> <<>>, seen |-> seen, kept |-> <<>>]),
             hdr)

\* What is found in the header row before the loop over the data rows.
HeaderInfo(headerRow, x) ==
    [headerRow |-> headerRow, x |-> x,
     filteredHeaders |-> ExcludeColumns(headerRow, x)]

IngestHeader(rows, headerRow, seen) ==
    IngestTable(rows, HeaderInfo(headerRow, ExcludedIndexes(headerRow)), seen)

\* if (rows.length === 0) throw new Error(`No data found in ...`)
IngestRows(rows, seen) ==
    IF Len(rows) = 0 THEN Thrown(<<"No data found">>)
    ELSE IngestHeader(rows, Cells(rows[1]), seen)

\* Everything after  const csvText = await response.text()  : the result
\* returned, and for each record of data the row it was built from; seen is
\* the set the call starts its loop with.
IngestFrom(csvText, seen) ==
    IF LooksLikeHtml(trim(csvText)) THEN Thrown(<<"appears to be private">>)
    ELSE IngestRows(NonBlankRows(csvText), seen)

\* The same for a call on its own.
Ingest(csvText) == IngestFrom(csvText, SeenNew({}))

\* A classification that knows the status 302 only.
HttpFailureOnly302(resp) ==
    IF resp.status = 302
    THEN Caught(<<"appears to be private or inaccessible">>)
    ELSE Caught(<<"Failed to fetch data. Status:", resp.status>>)

\* The branch taken when !response.ok: both throws end in the catch block.
HttpFailure(resp) ==
    IF \/ resp.status = 302
       \/ resp.status = 301
       \/ includes(resp.url, Chars("accounts.google.com"))
    THEN Caught(<<"appears to be private or inaccessible">>)
    ELSE Caught(<<"Failed to fetch data. Status:", resp.status>>)

(***************************************************************************)
(* Inputs of the fetch specification: what the HTTP request can produce    *)
(***************************************************************************)
\* Most data lines in one CSV text.
MaxDataLines == 2

HeaderLines == {
    Chars("Campaign Name,Email Template,Sheet ID"),
    Chars("Name,budget,ID"),
    Chars("BUDGET,Cost"),
    Chars("Budget,Notes"),
    Chars("Email Template,My EmailTemplate,Name"),
    Chars("Sheet ID,_sheetId,Name"),
    Chars("id,Record ID,Name"),
    Chars("Name,Campaign ID,sheetid,emailtemplate"),
    Chars("\"Campaign Name\",\"Budget\""),
    Chars("A,B"),
    Chars("budget,Budget"),
    Chars("Name"),
    Chars("Email Template Sheet ID,Name") }

DataLines == {
    Chars("Foo,tpl,abc123"),
    Chars("Foo,tpl,xyz"),
    Chars("ab,c"),
    Chars("a,bc"),
    Chars(",,"),
    Chars("   "),
    Chars("x"),
    Chars("\"p,q\",r\r"),
    Chars(",,,,v"),
    Chars("Foo,,abc123,w"),
    Chars("\"ab,c") }

RECURSIVE DataBlocks(_)
DataBlocks(n) ==
    IF n = 0 THEN {<<>>}
    ELSE LET fewer == DataBlocks(n - 1)
         IN fewer \cup {b \o <<NEWLINE>> \o l :
                            b \in {x \in fewer : x = <<>> \/ n > 1}, l \in DataLines}

CsvBodies == {h \o b : h \in HeaderLines, b \in DataBlocks(MaxDataLines)}

HtmlBodies == {
    Chars("<!DOCTYPE html><html>Sign in</html>"),
    Chars(" \n<HTML><BODY>Sign in</BODY></HTML>"),
    Chars("<html>,<body>\nSign in,x\n</body></html>") }

BlankBodies == { <<>>, Chars("\n"), Chars("  \n \r\n") }

\* CSV texts with blank lines before, between and after their lines.
SpacedBodies == {
    Chars("\n  \nA,B\n\n"),
    Chars("\r\nA,B\r\n \r\nab,c\r\n"),
    Chars("Sheet ID,Name,_sheetId\n\nab,c") }

Bodies == CsvBodies \cup HtmlBodies \cup BlankBodies \cup SpacedBodies

ExportUrl == Chars("https://docs.google.com/spreadsheets/d/S/export?format=csv")
LoginUrl == Chars("https://accounts.google.com/ServiceLogin")

Responses ==
    {[kind |-> "response", ok |-> FALSE, status |-> st, url |-> u, body |-> <<>>] :
         st \in {301, 302, 404, 500}, u \in {ExportUrl, LoginUrl}}
    \cup
    {[kind |-> "response", ok |-> TRUE, status |-> 200, url |-> ExportUrl,
      body |-> b] : b \in Bodies}

(***************************************************************************)
(* fetchSheetData: the asynchronous steps                                  *)
(***************************************************************************)
Init ==
    /\ ParseIdle
    /\ FetchIdle
    /\ ValidateIdle
    /\ RunsIdle
    /\ ViewIdle
    /\ FormIdle
    /\ DashIdle

\* The call, up to  await fetch(csvUrl, ...)
StartFetch ==
    /\ fpc = "idle"
    /\ fpc' = "fetching"
    /\ UNCHANGED <<response, result, settled, kept>>
    /\ UNCHANGED pvars
    /\ UNCHANGED xvars

\* fetch rejects (network failure): the catch block returns the error result.
\* The message is error.message, or 'Unknown error occurred' when what was
\* thrown is no Error.
FetchRejects ==
    /\ fpc = "fetching"
    /\ \E message \in {<<"Failed to fetch">>, <<"Unknown error occurred">>} :
           result' = Caught(message)
    /\ response' = [kind |-> "network failure"]
    /\ settled' = "resolved"
    /\ fpc' = "done"
    /\ UNCHANGED kept
    /\ UNCHANGED pvars
    /\ UNCHANGED xvars

\* fetch resolves with a response.
FetchResolves ==
    /\ fpc = "fetching"
    /\ \E resp \in Responses : response' = resp
    /\ fpc' = "reading"
    /\ UNCHANGED <<result, settled, kept>>
    /\ UNCHANGED pvars
    /\ UNCHANGED xvars

\* await response.text() rejects (the body cannot be read): caught as well.
TextRejects ==
    /\ fpc = "reading"
    /\ response' = [kind |-> "body failure"]
    /\ result' = Caught(<<"Failed to fetch">>)
    /\ settled' = "resolved"
    /\ fpc' = "done"
    /\ UNCHANGED kept
    /\ UNCHANGED pvars
    /\ UNCHANGED xvars

\* if (!response.ok) { await response.text(); throw ... }  and the catch
ReadErrorText ==
    /\ fpc = "reading"
    /\ ~response.ok
    /\ result' = HttpFailure(response)
    /\ settled' = "resolved"
    /\ fpc' = "done"
    /\ UNCHANGED <<response, kept>>
    /\ UNCHANGED pvars
    /\ UNCHANGED xvars

\* const csvText = await response.text(); ... return { data, headers }
ReadCsvText ==
    /\ fpc = "reading"
    /\ response.ok
    /\ \E out \in {Ingest(response.body)} :
           /\ result' = out.result
           /\ kept' = out.kept
    /\ settled' = "resolved"
    /\ fpc' = "done"
    /\ UNCHANGED response
    /\ UNCHANGED pvars
    /\ UNCHANGED xvars

Next ==
    \/ StartFetch
    \/ FetchRejects
    \/ FetchResolves
    \/ TextRejects
    \/ ReadErrorText
    \/ ReadCsvText

Spec == Init /\ [][Next]_vars

(***************************************************************************)
(* Two calls of fetchSheetData whose requests are outstanding together     *)
(* (two dashboards loading).  A call runs without interruption between two *)
(* awaits, so the calls interleave at  await fetch  and  await text  only. *)
(***************************************************************************)
Calls == {1, 2}

\* What the two requests can produce.
RunResponses ==
    {[kind |-> "response", ok |-> FALSE, status |-> 404, url |-> ExportUrl,
      body |-> <<>>]}
    \cup
    {[kind |-> "response", ok |-> TRUE, status |-> 200, url |-> ExportUrl,
      body |-> b] :
         b \in {Chars("A,B\nab,c\nab,c"), Chars("A,B\nab,c"),
                Chars("A,B\nx\nab,c"), Chars("A,B"),
                Chars("<!DOCTYPE html><html>Sign in</html>"), Chars("\n")}}

\* A call before it starts: its position, response, result and seen keys.
CallIdle ==
    [pc |-> "idle", response |-> [kind |-> "none"], result |-> NoResult,
     seen |-> {}]

\* The keys the calls other than c have in their seen sets.
SeenByOthers(calls, c) == UNION {calls[o].seen : o \in Calls \ {c}}

\* The request of another call than c is outstanding.
OthersOutstanding(calls, c) ==
    \E o \in Calls \ {c} : calls[o].pc \in {"fetching", "reading"}

InitRuns ==
    /\ runs = [calls |-> [c \in Calls |-> CallIdle], overlapped |-> FALSE]
    /\ ParseIdle
    /\ FetchIdle
    /\ ValidateIdle
    /\ ViewIdle
    /\ FormIdle
    /\ DashIdle

\* The call, up to  await fetch(csvUrl, ...) ; overlapped records that two
\* requests have been outstanding at the same time.
RunStartFetch ==
    /\ \E c \in Calls :
           /\ runs.calls[c].pc = "idle"
           /\ runs' = [runs EXCEPT
                           !.calls[c].pc = "fetching",
                           !.overlapped = @ \/ OthersOutstanding(runs.calls, c)]
    /\ UNCHANGED <<pvars, fvars, validation, view, form, dash>>

RunFetchRejects ==
    /\ \E c \in Calls :
           /\ runs.calls[c].pc = "fetching"
           /\ runs' = [runs EXCEPT
                           !.calls[c].pc = "done",
                           !.calls[c].response = [kind |-> "network failure"],
                           !.calls[c].result = Caught(<<"Failed to fetch">>)]
    /\ UNCHANGED <<pvars, fvars, validation, view, form, dash>>

RunFetchResolves ==
    /\ \E c \in Calls : \E resp \in RunResponses :
           /\ runs.calls[c].pc = "fetching"
           /\ runs' = [runs EXCEPT !.calls[c].pc = "reading",
                                   !.calls[c].response = resp]
    /\ UNCHANGED <<pvars, fvars, validation, view, form, dash>>

\* await response.text() rejects: caught as well.
RunTextRejects ==
    /\ \E c \in Calls :
           /\ runs.calls[c].pc = "reading"
           /\ runs' = [runs EXCEPT
                           !.calls[c].pc = "done",
                           !.calls[c].response = [kind |-> "body failure"],
                           !.calls[c].result = Caught(<<"Failed to fetch">>)]
    /\ UNCHANGED <<pvars, fvars, validation, view, form, dash>>

\* if (!response.ok) { await response.text(); throw ... }  and the catch
RunReadErrorText ==
    /\ \E c \in Calls :
           /\ runs.calls[c].pc = "reading"
           /\ ~runs.calls[c].response.ok
           /\ runs' = [runs EXCEPT
                           !.calls[c].pc = "done",
                           !.calls[c].result = HttpFailure(runs.calls[c].response)]
    /\ UNCHANGED <<pvars, fvars, validation, view, form, dash>>

\* const csvText = await response.text(); ... return { data, headers }
RunReadCsvText ==
    /\ \E c \in Calls :
           /\ runs.calls[c].pc = "reading"
           /\ runs.calls[c].response.ok
           /\ \E out \in {IngestFrom(runs.calls[c].response.body,
                                     SeenNew(SeenByOthers(runs.calls, c)))} :
                  runs' = [runs EXCEPT !.calls[c].pc = "done",
                                       !.calls[c].result = out.result,
                                       !.calls[c].seen = out.seen]
    /\ UNCHANGED <<pvars, fvars, validation, view, form, dash>>

NextRuns ==
    \/ RunStartFetch
    \/ RunFetchRejects
    \/ RunFetchResolves
    \/ RunTextRejects
    \/ RunReadErrorText
    \/ RunReadCsvText

SpecRuns == InitRuns /\ [][NextRuns]_vars

(***************************************************************************)
(* The per-sheet view page (ViewDetailPage): its React state and the       *)
(* effect that loads the sheet named by the route parameter.  The effect   *)
(* has the dependency [sheetId] and returns no cleanup function; it parses *)
(* the CSV text with the page's own copy of the pipeline.                  *)
(***************************************************************************)
\* rowData[header] = filteredValues[idx] || ''   from position idx on
RECURSIVE ViewMapValues(_, _, _, _)
ViewMapValues(filteredHeaders, filteredValues, idx, rowData) ==
    IF idx > Len(filteredHeaders) THEN rowData
    ELSE ViewMapValues(filteredHeaders, filteredValues, idx + 1,
                       (filteredHeaders[idx] :> ValueAt(filteredValues, idx))
                           @@ rowData)

\* if (filteredValues.every(...)) continue;  ...  parsedData.push(rowData)
ViewRowStep(parsedData, filteredValues, filteredHeaders) ==
    IF EveryBlank(filteredValues) THEN parsedData
    ELSE Append(parsedData,
                ViewMapValues(filteredHeaders, filteredValues, 1, <<>>))

\* for (let i = 1; i < rows.length; i++) { ... }   (rows is 1-based here)
RECURSIVE ViewRowLoop(_, _, _, _)
ViewRowLoop(rows, hdr, i, parsedData) ==
    IF i > Len(rows) THEN parsedData
    ELSE ViewRowLoop(rows, hdr, i + 1,
                     ViewRowStep(parsedData,
                                 ExcludeColumns(Cells(rows[i]), hdr.x),
                                 hdr.filteredHeaders))

\* The page excludes the email-template and the id column, not the sheet-id
\* column.
ViewExcludedIndexes(headerRow) ==
    [email |-> emailTemplateIndex(headerRow),
     id |-> idColumnIndex(headerRow),
     sheet |-> 0]

\* setHeaders(filteredHeaders); ...; setData(parsedData)
ViewTable(rows, hdr) ==
    [ok |-> TRUE, headers |-> hdr.filteredHeaders,
     data |-> ViewRowLoop(rows, hdr, 2, <<>>)]

ViewHeader(rows, headerRow) ==
    ViewTable(rows, HeaderInfo(headerRow, ViewExcludedIndexes(headerRow)))

\* What the effect does with the CSV text: the state it sets, or the error
\* it throws.
ViewIngest(csvText) ==
    IF Len(NonBlankRows(csvText)) = 0
    THEN [ok |-> FALSE, error |-> <<"No data found in the sheet">>]
    ELSE ViewHeader(NonBlankRows(csvText), Cells(NonBlankRows(csvText)[1]))

\* What the effect does once the response is there.
ViewOutcome(effect) ==
    IF ~effect.response.ok
    THEN [ok |-> FALSE,
          error |-> <<"Failed to fetch data from Google Sheets", effect.sheetId>>]
    ELSE ViewIngest(effect.response.body)

\* try: setHeaders, setData, setError(null)  catch: setError(message)
\* finally: setLoading(false).  React drops the updates of a page that is
\* unmounted.
ViewSetState(v, out) ==
    IF v.pc # "mounted" THEN v
    ELSE IF out.ok
    THEN [v EXCEPT !.headers = out.headers, !.data = out.data,
                   !.error = Null, !.loading = FALSE]
    ELSE [v EXCEPT !.error = out.error, !.loading = FALSE]

(***************************************************************************)
(* Inputs of the page specification                                        *)
(***************************************************************************)
\* Most effects one page starts: the first load and the route changes.
MaxEffects == 2

SheetIds == {"S1", "S2"}

\* The CSV text each sheet is published with.
SheetBody(sheetId) ==
    IF sheetId = "S1" THEN Chars("Name,ID\nFoo,1") ELSE Chars("Name\nBar\n\nBaz")

\* What the request for a sheet can produce.
ViewResponses(sheetId) ==
    {[ok |-> TRUE, status |-> 200, body |-> SheetBody(sheetId)],
     [ok |-> TRUE, status |-> 200, body |-> Chars("\n")],
     [ok |-> FALSE, status |-> 404, body |-> <<>>]}

\* The page after its first render: useState's initial values, the effect
\* of the render not yet run.
ViewStart(sheetId) ==
    [pc |-> "mounted", sheetId |-> sheetId, pending |-> TRUE,
     data |-> <<>>, headers |-> <<>>, error |-> Null, loading |-> TRUE,
     effects |-> <<>>]

\* An effect when it starts: tornDown says that the page was unmounted or
\* that a later effect has taken its place.
EffectStart(sheetId) ==
    [sheetId |-> sheetId, pc |-> "fetching", response |-> [ok |-> FALSE],
     tornDown |-> FALSE]

TearDown(effects) == [e \in DOMAIN effects |-> [effects[e] EXCEPT !.tornDown = TRUE]]

InitView ==
    /\ view \in {ViewStart(sheetId) : sheetId \in SheetIds}
    /\ ParseIdle
    /\ FetchIdle
    /\ ValidateIdle
    /\ RunsIdle
    /\ FormIdle
    /\ DashIdle

\* The effect of the last render runs: setLoading(true) and the request.
\* The effects of earlier renders are superseded; nothing cancels them.
ViewRunEffect ==
    /\ view.pc = "mounted"
    /\ view.pending
    /\ view' = [view EXCEPT
                    !.pending = FALSE,
                    !.loading = TRUE,
                    !.effects = Append(TearDown(@), EffectStart(view.sheetId))]
    /\ UNCHANGED <<pvars, fvars, validation, runs, form, dash>>

\* The route parameter changes: the page renders with the new sheetId.
ViewChangeSheet ==
    /\ view.pc = "mounted"
    /\ ~view.pending
    /\ Len(view.effects) < MaxEffects
    /\ \E sheetId \in SheetIds \ {view.sheetId} :
           view' = [view EXCEPT !.sheetId = sheetId, !.pending = TRUE]
    /\ UNCHANGED <<pvars, fvars, validation, runs, form, dash>>

\* The user leaves the page.
ViewUnmount ==
    /\ view.pc = "mounted"
    /\ view' = [view EXCEPT !.pc = "unmounted", !.pending = FALSE,
                            !.effects = TearDown(@)]
    /\ UNCHANGED <<pvars, fvars, validation, runs, form, dash>>

\* await fetch(csvUrl) rejects: catch and finally.
ViewFetchRejects ==
    /\ \E e \in 1..Len(view.effects) :
           /\ view.effects[e].pc = "fetching"
           /\ view' = [ViewSetState(view, [ok |-> FALSE,
                                           error |-> <<"Failed to fetch">>])
                           EXCEPT !.effects[e].pc = "done"]
    /\ UNCHANGED <<pvars, fvars, validation, runs, form, dash>>

\* await fetch(csvUrl) resolves.
ViewFetchResolves ==
    /\ \E e \in 1..Len(view.effects) :
           /\ view.effects[e].pc = "fetching"
           /\ \E resp \in ViewResponses(view.effects[e].sheetId) :
                  view' = [view EXCEPT !.effects[e].pc = "reading",
                                       !.effects[e].response = resp]
    /\ UNCHANGED <<pvars, fvars, validation, runs, form, dash>>

\* await response.text() rejects: catch and finally.
ViewTextRejects ==
    /\ \E e \in 1..Len(view.effects) :
           /\ view.effects[e].pc = "reading"
           /\ view.effects[e].response.ok
           /\ view' = [ViewSetState(view, [ok |-> FALSE,
                                           error |-> <<"Failed to load data">>])
                           EXCEPT !.effects[e].pc = "done"]
    /\ UNCHANGED <<pvars, fvars, validation, runs, form, dash>>

\* if (!response.ok) throw ...; const csvText = await response.text(); ...
\* up to the end of the effect's function.
ViewReadText ==
    /\ \E e \in 1..Len(view.effects) :
           /\ view.effects[e].pc = "reading"
           /\ view' = [ViewSetState(view, ViewOutcome(view.effects[e]))
                           EXCEPT !.effects[e].pc = "done"]
    /\ UNCHANGED <<pvars, fvars, validation, runs, form, dash>>

NextView ==
    \/ ViewRunEffect
    \/ ViewChangeSheet
    \/ ViewUnmount
    \/ ViewFetchRejects
    \/ ViewFetchResolves
    \/ ViewTextRejects
    \/ ViewReadText

SpecView == InitView /\ [][NextView]_vars

(***************************************************************************)
(* The campaign form (ContactPage): handleSubmit and the webhook request   *)
(***************************************************************************)
\* Most webhook requests sent in one behaviour.
MaxSubmits == 2

\* What the webhook can answer: a success status or an error status.
WebhookResponses ==
    {[ok |-> TRUE, status |-> 200], [ok |-> FALSE, status |-> 404],
     [ok |-> FALSE, status |-> 500]}

\* The two flags of the React state that a render shows: handleSubmit reads
\* isRequestInProgress from the render it was created in, the button is
\* disabled when that render had isSubmitting.
Flags(f) ==
    [isSubmitting |-> f.isSubmitting,
     isRequestInProgress |-> f.isRequestInProgress]

\* useState(...) of the page, and no request sent (ignored is the number of
\* requests sent when a submission was last ignored, last the outcome of the
\* last submission).
FormStart ==
    [pc |-> "mounted",
     isSubmitting |-> FALSE,
     isRequestInProgress |-> FALSE,
     submitError |-> Null,
     showSuccessPopup |-> FALSE,
     hasErrors |-> FALSE,
     rendered |-> [isSubmitting |-> FALSE, isRequestInProgress |-> FALSE],
     requests |-> <<>>,
     ignored |-> 0,
     last |-> "none"]

\* A guard that never finds a request in progress.
InProgressNever(f) == FALSE

\* if (isRequestInProgress) return;   (the value of the render the handler
\* belongs to)
InProgress(f) == f.rendered.isRequestInProgress

\* setIsSubmitting(true); setIsRequestInProgress(true); setSubmitError(null);
\* and the request of  await fetch(webhook, ...)
Sending(f) ==
    [f EXCEPT !.isSubmitting = TRUE,
              !.isRequestInProgress = TRUE,
              !.submitError = Null,
              !.hasErrors = FALSE,
              !.requests = Append(f.requests, [pc |-> "fetching"]),
              !.last = "sent"]

\* The render React makes before it handles the next event.
Rendered(f) == [f EXCEPT !.rendered = Flags(f)]

\* A state update of a page that has been left changes nothing.
FormSetState(f, next) == IF f.pc = "mounted" THEN next ELSE f

\* finally { setIsSubmitting(false); setIsRequestInProgress(false); }
Finally(f) == [f EXCEPT !.isSubmitting = FALSE, !.isRequestInProgress = FALSE]

\* catch (error) { setSubmitError(`Failed to submit: ${error.message}`) }
\* and the finally block
SubmitFailed(f, message) == Finally([f EXCEPT !.submitError = message])

\* if (response.ok) { ... setShowSuccessPopup(true); ... }  and the finally
\* block (the form fields are emptied as well)
SubmitSucceeded(f) == Finally([f EXCEPT !.showSuccessPopup = TRUE])

\* The request r has reached position pc.
RequestAt(f, r, pc) == [f EXCEPT !.requests[r].pc = pc]

ResponseOf(f, r, resp) ==
    [f EXCEPT !.requests[r] = [pc |-> "reading", ok |-> resp.ok,
                               status |-> resp.status]]

\* After  await response.text() : the success branch, or the error branch,
\* whose second response.text() fails on the body already read, and throws.
AfterText(f, req) ==
    IF req.ok THEN SubmitSucceeded(f)
    ELSE SubmitFailed(f, <<"Failed to submit: HTTP error! status:", req.status,
                           "Could not read response body">>)

InitForm ==
    /\ form = FormStart
    /\ ParseIdle
    /\ FetchIdle
    /\ ValidateIdle
    /\ RunsIdle
    /\ ViewIdle
    /\ DashIdle

\* handleSubmit with a field that does not validate: setTouched, setErrors,
\* and nothing else.
FormSubmitInvalid ==
    /\ form.pc = "mounted"
    /\ form' = [form EXCEPT !.hasErrors = TRUE, !.last = "invalid"]
    /\ UNCHANGED <<pvars, fvars, validation, runs, view, dash>>

\* handleSubmit with valid fields while the handler's render has a request
\* in progress: the submission is ignored.
FormSubmitIgnored ==
    /\ form.pc = "mounted"
    /\ InProgress(form)
    /\ form' = [form EXCEPT !.hasErrors = FALSE, !.last = "ignored",
                            !.ignored = Len(form.requests)]
    /\ UNCHANGED <<pvars, fvars, validation, runs, view, dash>>

\* handleSubmit with valid fields, up to  await fetch(webhook, ...) . The
\* updates are made inside the submit event, so React renders them before
\* the next event is handled.
FormSubmitSends ==
    /\ form.pc = "mounted"
    /\ ~InProgress(form)
    /\ Len(form.requests) < MaxSubmits
    /\ form' = Rendered(Sending(form))
    /\ UNCHANGED <<pvars, fvars, validation, runs, view, dash>>

\* The render React schedules after the state updates made once a request
\* has settled.
FormRender ==
    /\ form.pc = "mounted"
    /\ form.rendered # Flags(form)
    /\ form' = Rendered(form)
    /\ UNCHANGED <<pvars, fvars, validation, runs, view, dash>>

\* fetch rejects (network failure): catch and finally.
FormFetchRejects ==
    /\ form.pc # "idle"
    /\ \E r \in DOMAIN form.requests :
           /\ form.requests[r].pc = "fetching"
           /\ form' = RequestAt(FormSetState(form,
                                    SubmitFailed(form, <<"Failed to submit: Failed to fetch">>)),
                                r, "settled")
    /\ UNCHANGED <<pvars, fvars, validation, runs, view, dash>>

\* fetch resolves with the webhook's response.
FormFetchResolves ==
    /\ form.pc # "idle"
    /\ \E r \in DOMAIN form.requests : \E resp \in WebhookResponses :
           /\ form.requests[r].pc = "fetching"
           /\ form' = ResponseOf(form, r, resp)
    /\ UNCHANGED <<pvars, fvars, validation, runs, view, dash>>

\* await response.text() rejects: catch and finally.
FormTextRejects ==
    /\ form.pc # "idle"
    /\ \E r \in DOMAIN form.requests :
           /\ form.requests[r].pc = "reading"
           /\ form' = RequestAt(FormSetState(form,
                                    SubmitFailed(form, <<"Failed to submit: body failure">>)),
                                r, "settled")
    /\ UNCHANGED <<pvars, fvars, validation, runs, view, dash>>

\* const responseText = await response.text(); if (response.ok) ... else ...
FormReadText ==
    /\ form.pc # "idle"
    /\ \E r \in DOMAIN form.requests :
           /\ form.requests[r].pc = "reading"
           /\ form' = RequestAt(FormSetState(form, AfterText(form, form.requests[r])),
                                r, "settled")
    /\ UNCHANGED <<pvars, fvars, validation, runs, view, dash>>

\* OK in the success popup: setShowSuccessPopup(false);
\* router.push('/dashboard'), which leaves the page.
FormClosePopup ==
    /\ form.pc = "mounted"
    /\ form.showSuccessPopup
    /\ form' = [form EXCEPT !.showSuccessPopup = FALSE, !.pc = "left"]
    /\ UNCHANGED <<pvars, fvars, validation, runs, view, dash>>

NextForm ==
    \/ FormSubmitInvalid
    \/ FormSubmitIgnored
    \/ FormSubmitSends
    \/ FormRender
    \/ FormFetchRejects
    \/ FormFetchResolves
    \/ FormTextRejects
    \/ FormReadText
    \/ FormClosePopup

SpecForm == InitForm /\ [][NextForm]_vars

(***************************************************************************)
(* The dashboard pages (DashboardPage): the one that calls fetchSheetData  *)
(* of the library ("lib") and the one that fetches and parses in its own   *)
(* effect ("inline")                                                       *)
(***************************************************************************)
DashPages == {"lib", "inline"}

\* rowData[header] = value  for each of the filtered headers, from idx on.
RECURSIVE InlineMapValues(_, _, _, _)
InlineMapValues(filteredHeaders, filteredValues, idx, acc) ==
    IF idx > Len(filteredHeaders) THEN acc
    ELSE InlineMapValues(filteredHeaders, filteredValues, idx + 1,
                         Assign(acc, filteredHeaders[idx],
                                ValueAt(filteredValues, idx)))

InlineRowMapped(values, filteredValues, hdr) ==
    Mapped(InlineMapValues(hdr.filteredHeaders, filteredValues, 1,
                           [rowData |-> <<>>, rowKey |-> <<>>]),
           SheetIdValue(values, hdr.x.sheet))

InlineRowStep(acc, values, filteredValues, hdr, i) ==
    IF EveryBlank(filteredValues) THEN acc
    ELSE PushUnlessSeen(acc, InlineRowMapped(values, filteredValues, hdr), i)

InlineRowValues(acc, values, hdr, i) ==
    InlineRowStep(acc, values, ExcludeColumns(values, hdr.x), hdr, i)

RECURSIVE InlineRowLoop(_, _, _, _)
InlineRowLoop(rows, hdr, i, acc) ==
    IF i > Len(rows) THEN acc
    ELSE InlineRowLoop(rows, hdr, i + 1,
                       InlineRowValues(acc, Cells(rows[i]), hdr, i))

\* setHeaders(filteredHeaders); ...; setData(parsedData); setError(null)
InlineTable(rows, hdr) ==
    [data |-> InlineRowLoop(rows, hdr, 2,
                  [parsedData |-> <<>>, seen |-> {}, kept |-> <<>>]).parsedData,
     headers |-> hdr.filteredHeaders,
     error |-> <<>>]

InlineHeader(rows, headerRow) ==
    InlineTable(rows, HeaderInfo(headerRow, ExcludedIndexes(headerRow)))

\* if (rows.length === 0) throw new Error('No data found in the sheet')
InlineRows(rows) ==
    IF Len(rows) = 0 THEN Caught(<<"No data found in the sheet">>)
    ELSE InlineHeader(rows, Cells(rows[1]))

\* Everything after  const csvText = await response.text()  in the effect
\* of the inline page: what it sets, or the message it throws.
InlineIngest(csvText) == InlineRows(NonBlankRows(csvText))

\* A catch block without the finally block.
InlineFailedNoFinally(d, message) == [d EXCEPT !.error = message]

\* catch (err) { setError(...) } finally { setLoading(false) }
InlineFailed(d, message) == [d EXCEPT !.error = message, !.loading = FALSE]

\* setHeaders(...); setData(...); setError(null); finally setLoading(false)
InlineLoaded(d, out) ==
    [d EXCEPT !.headers = out.headers, !.data = out.data, !.error = Null,
              !.loading = FALSE]

InlineSettled(d, out) ==
    IF Truthy(out.error) THEN InlineFailed(d, out.error)
    ELSE InlineLoaded(d, out)

\* if (result.error) { setError(result.error); setData([]); setHeaders([]) }
\* else { setData(result.data); setHeaders(result.headers); setError(null) }
\* setLoading(false)
LibSettled(d, res) ==
    IF Truthy(res.error)
    THEN [d EXCEPT !.error = res.error, !.data = <<>>, !.headers = <<>>,
                   !.loading = FALSE]
    ELSE [d EXCEPT !.data = res.data, !.headers = res.headers, !.error = Null,
                   !.loading = FALSE]

\* The state after the effect has run to its end with the outcome out: the
\* result of fetchSheetData for the lib page, what the effect has computed
\* or thrown for the inline page. A page that is unmounted keeps its state.
DashSettled(d, out) ==
    IF ~d.mounted THEN d
    ELSE IF d.page = "lib" THEN LibSettled(d, out)
    ELSE InlineSettled(d, out)

DashDone(d, out) == [DashSettled(d, out) EXCEPT !.pc = "done"]

\* What reading the CSV text gives on each page.
DashIngest(page, csvText) ==
    IF page = "lib" THEN Ingest(csvText).result ELSE InlineIngest(csvText)

\* What a status that is not a success gives on each page.
DashHttpFailure(page, resp) ==
    IF page = "lib" THEN HttpFailure(resp)
    ELSE Caught(<<"Failed to fetch data from Google Sheets">>)

\* What a rejected fetch gives on each page: the message of the error, or
\* the page's default when what was thrown is no Error.
DashRejections(page) ==
    {Caught(<<"Failed to fetch">>),
     Caught(IF page = "lib" THEN <<"Unknown error occurred">>
            ELSE <<"Failed to load data">>)}

\* What the request of a dashboard can produce.
DashBodies == {
    Chars("Campaign Name,Email Template,Sheet ID\nFoo,tpl,abc123"),
    Chars("Name,budget,ID\nab,c,1\nab,c,2"),
    Chars("A,B\nab,c\n\n,\nx"),
    Chars("A,B"),
    Chars("Sheet ID,Name\nabc,Foo\nabc,Foo"),
    Chars("Budget,Notes\n5,\"a,b\""),
    Chars("\n"),
    <<>>,
    Chars("<!DOCTYPE html><html>Sign in</html>") }

DashResponses ==
    {[kind |-> "response", ok |-> FALSE, status |-> 404, url |-> ExportUrl,
      body |-> <<>>],
     [kind |-> "response", ok |-> FALSE, status |-> 302, url |-> LoginUrl,
      body |-> <<>>]}
    \cup
    {[kind |-> "response", ok |-> TRUE, status |-> 200, url |-> ExportUrl,
      body |-> b] : b \in DashBodies}

\* useState(...) of the page: loading starts true.
DashStart(page) ==
    [pc |-> "mounted", page |-> page, mounted |-> TRUE,
     data |-> <<>>, headers |-> <<>>, error |-> Null, loading |-> TRUE,
     response |-> [kind |-> "none"]]

InitDash ==
    /\ dash \in {DashStart(page) : page \in DashPages}
    /\ ParseIdle
    /\ FetchIdle
    /\ ValidateIdle
    /\ RunsIdle
    /\ ViewIdle
    /\ FormIdle

\* useEffect(() => { ... }, []): setLoading(true) and the request.
DashRunEffect ==
    /\ dash.pc = "mounted"
    /\ dash.mounted
    /\ dash' = [dash EXCEPT !.pc = "fetching", !.loading = TRUE]
    /\ UNCHANGED <<pvars, fvars, validation, runs, view, form>>

\* The page is left; nothing cancels the request.
DashUnmount ==
    /\ dash.pc \in {"mounted", "fetching", "reading", "done"}
    /\ dash.mounted
    /\ dash' = [dash EXCEPT !.mounted = FALSE]
    /\ UNCHANGED <<pvars, fvars, validation, runs, view, form>>

\* fetch rejects (network failure).
DashFetchRejects ==
    /\ dash.pc = "fetching"
    /\ \E out \in DashRejections(dash.page) :
           dash' = DashDone([dash EXCEPT !.response = [kind |-> "network failure"]],
                            out)
    /\ UNCHANGED <<pvars, fvars, validation, runs, view, form>>

\* fetch resolves with a response the effect goes on to read.
DashFetchResolves ==
    /\ dash.pc = "fetching"
    /\ \E resp \in DashResponses :
           /\ dash.page = "inline" => resp.ok
           /\ dash' = [dash EXCEPT !.pc = "reading", !.response = resp]
    /\ UNCHANGED <<pvars, fvars, validation, runs, view, form>>

\* fetch resolves with a status that is not a success, inline page:
\* if (!response.ok) throw ...   without reading the body.
DashFetchFails ==
    /\ dash.pc = "fetching"
    /\ dash.page = "inline"
    /\ \E resp \in DashResponses :
           /\ ~resp.ok
           /\ dash' = DashDone([dash EXCEPT !.response = resp],
                               DashHttpFailure(dash.page, resp))
    /\ UNCHANGED <<pvars, fvars, validation, runs, view, form>>

\* await response.text() rejects.
DashTextRejects ==
    /\ dash.pc = "reading"
    /\ dash' = DashDone([dash EXCEPT !.response = [kind |-> "body failure"]],
                        Caught(<<"Failed to fetch">>))
    /\ UNCHANGED <<pvars, fvars, validation, runs, view, form>>

\* fetchSheetData reads the body of a response that is not a success and
\* returns the error result.
DashReadErrorText ==
    /\ dash.pc = "reading"
    /\ ~dash.response.ok
    /\ dash' = DashDone(dash, DashHttpFailure(dash.page, dash.response))
    /\ UNCHANGED <<pvars, fvars, validation, runs, view, form>>

\* const csvText = await response.text()  and all that follows it.
DashReadCsvText ==
    /\ dash.pc = "reading"
    /\ dash.response.ok
    /\ dash' = DashDone(dash, DashIngest(dash.page, dash.response.body))
    /\ UNCHANGED <<pvars, fvars, validation, runs, view, form>>

\* The steps the event loop takes once they are possible: the effect after
\* the first render, and the continuations of a request that settles.
DashProgress ==
    \/ DashRunEffect
    \/ DashFetchRejects
    \/ DashFetchResolves
    \/ DashFetchFails
    \/ DashTextRejects
    \/ DashReadErrorText
    \/ DashReadCsvText

NextDash ==
    \/ DashRunEffect
    \/ DashUnmount
    \/ DashFetchRejects
    \/ DashFetchResolves
    \/ DashFetchFails
    \/ DashTextRejects
    \/ DashReadErrorText
    \/ DashReadCsvText

SpecDash == InitDash /\ [][NextDash]_vars

\* The effect runs after the first render and every request settles.
SpecDashLive == SpecDash /\ WF_vars(DashProgress)

(***************************************************************************)
(* Claims about parseCSVRow (checked under SpecParse)                      *)
(***************************************************************************)
\* How many elements of the set of positions P are there in the line.
Count(P) == Cardinality(P)

QuotesBefore(r, k) == Count({j \in 1..(k - 1) : r[j] = QUOTE})

\* The commas of the line that have an even number of double-quotes before
\* them: the commas outside every quoted region.
CommasOutsideQuotes(r) ==
    {k \in 1..Len(r) : r[k] = COMMA /\ QuotesBefore(r, k) % 2 = 0}

CommasIn(s) == {k \in 1..Len(s) : s[k] = COMMA}

RECURSIVE CommasInFields(_)
CommasInFields(a) ==
    IF a = <<>> THEN 0 ELSE Count(CommasIn(Head(a))) + CommasInFields(Tail(a))

\* C8: parseCSVRow ends a field only at a comma outside quotes: it returns
\* one field more than the line has commas outside quoted regions, every
\* comma inside a quoted region is kept in the text of some field, and every
\* field is trimmed of leading and trailing whitespace.
C8_FieldsEndAtUnquotedCommas ==
    ppc = "done" =>
        /\ Len(ret) = 1 + Count(CommasOutsideQuotes(row))
        /\ CommasInFields(ret) =
               Count(CommasIn(row)) - Count(CommasOutsideQuotes(row))
        /\ \A k \in 1..Len(ret) : ret[k] = trim(ret[k])

\* The line  a,"a,a  : the first comma splits, the quoted one is kept.
C8_Witness ==
    /\ ppc = "done"
    /\ row = <<"a", COMMA, QUOTE, "a", COMMA>>
    /\ ret = << <<"a">>, <<"a", COMMA>> >>

\* C9: a loop iteration that meets two consecutive double-quotes while the
\* scan is inside a quoted region appends exactly one double-quote to the
\* current field, skips both characters, pushes no field and leaves the
\* scan inside the quoted region.
C9_EscapedQuoteStaysInside ==
    [][(/\ ppc = "loop"
        /\ scan.i + 1 <= Len(row)
        /\ scan.inQuotes
        /\ row[scan.i] = QUOTE
        /\ row[scan.i + 1] = QUOTE)
       => (/\ scan'.current = Append(scan.current, QUOTE)
           /\ scan'.inQuotes
           /\ scan'.i = scan.i + 2
           /\ scan'.values = scan.values)]_vars

\* The line  "a"",  : opened, escaped quote, and the comma after it is still
\* inside the quoted region, so the call returns the single field  a",
C9_Witness ==
    /\ ppc = "done"
    /\ row = <<QUOTE, "a", QUOTE, QUOTE, COMMA>>
    /\ scan.inQuotes
    /\ ret = << <<"a", QUOTE, COMMA>> >>

\* C10: on a line without any double-quote parseCSVRow returns what the view
\* page's parser returns: the line split at every comma, each piece trimmed.
C10_AgreesWithNaiveSplit ==
    (ppc = "done" /\ \A k \in 1..Len(row) : row[k] # QUOTE)
        => ret = NaiveSplit(row)

\* The line  " a, a"  gives the two fields a and a.
C10_Witness ==
    /\ ppc = "done"
    /\ row = <<" ", "a", COMMA, " ", "a">>
    /\ ret = << <<"a">>, <<"a">> >>

(***************************************************************************)
(* Claims about fetchSheetData (checked under Spec)                        *)
(***************************************************************************)
\* fetchSheetData has returned the headers and records of a CSV text.
Succeeded ==
    /\ fpc = "done"
    /\ response.kind = "response"
    /\ response.ok
    /\ Len(result.error) = 0

\* The non-blank lines of the CSV text, the header line first.
ObservedRows == NonBlankRows(response.body)

ObservedHeaders == Cells(ObservedRows[1])

\* The data rows a record of the result was built from.
KeptRows == {kept[k] : k \in 1..Len(kept)}

ContainsEmailTemplate(h) ==
    \/ includes(toLowerCase(h), Chars("email template"))
    \/ includes(toLowerCase(h), Chars("emailtemplate"))

NamesRecordId(h) ==
    toLowerCase(h) \in {Chars("id"), Chars("campaign id"), Chars("record id")}

ContainsSheetId(h) ==
    \/ includes(toLowerCase(h), Chars("sheet id"))
    \/ includes(toLowerCase(h), Chars("sheetid"))

\* The position of the first sheet-id header among the headers, 0 if none.
FirstSheetId(headers) ==
    FirstOf({k \in 1..Len(headers) : ContainsSheetId(headers[k])})

\* The positions the claims say are removed: the first email-template
\* header, the first id header and the first sheet-id header.
RemovedPositions(headers) ==
    {FirstOf({k \in 1..Len(headers) : ContainsEmailTemplate(headers[k])}),
     FirstOf({k \in 1..Len(headers) : NamesRecordId(headers[k])}),
     FirstSheetId(headers)}

RECURSIVE WithoutFrom(_, _, _)
WithoutFrom(a, removed, k) ==
    IF k > Len(a) THEN <<>>
    ELSE (IF k \in removed THEN <<>> ELSE <<a[k]>>)
             \o WithoutFrom(a, removed, k + 1)

\* The sequence a with the elements at the removed positions left out.
Without(a, removed) == WithoutFrom(a, removed, 1)

\* For each data row (by its position among the non-blank lines): its cells.
CellsOfRows(rows) == [i \in 2..Len(rows) |-> Cells(rows[i])]

DataCells == CellsOfRows(ObservedRows)

RetainedOf(cells, removed) == [i \in DOMAIN cells |-> Without(cells[i], removed)]

\* For each data row: its values left after removing the excluded columns.
RetainedValues == RetainedOf(DataCells, RemovedPositions(ObservedHeaders))

\* The idx-th of the values, '' when there are fewer.
At(values, idx) == IF idx <= Len(values) THEN values[idx] ELSE <<>>

AllBlank(a) == \A k \in 1..Len(a) : trim(a[k]) = <<>>

\* The record keys of the returned headers, in order.
ReturnedKeys == map(mappedHeader, result.headers)

\* Every record holds, under the key of each returned header, the value of
\* its row in that column (for the keys that a single column writes): t are
\* the retained values of the rows, keys the keys of the returned headers.
RecordsHoldRows(t, keys) ==
    \A k \in 1..Len(result.data) : \A idx \in 1..Len(keys) :
        (/\ keys[idx] # SHEET_ID_KEY
         /\ \A other \in 1..Len(keys) : other # idx => keys[other] # keys[idx])
        => /\ keys[idx] \in DOMAIN result.data[k]
           /\ result.data[k][keys[idx]] = At(t[kept[k]], idx)

ResolvedFields(h) ==
    {f \in 1..Len(FORM_FIELDS) :
         findColumnHeader(FORM_FIELDS[f].formKey, result.headers) = h}

KeyIsCanonical(rec, h, fields) ==
    IF fields # {}
    THEN \E f \in fields : FORM_FIELDS[f].displayName \in DOMAIN rec
    ELSE h \in DOMAIN rec

\* C2: in every record the key of a retained header that the Header Resolver
\* resolves to a canonical field is that field's displayName, and the key of
\* a retained header that resolves to no field is the header text itself.
C2_KeysAreCanonical ==
    Succeeded =>
        \A k \in 1..Len(result.data) : \A idx \in 1..Len(result.headers) :
            KeyIsCanonical(result.data[k], result.headers[idx],
                           ResolvedFields(result.headers[idx]))

\* Of two rows with the same list of retained values the later one yields no
\* record.
LaterDuplicateDropped(t) ==
    \A i \in DOMAIN t : \A j \in DOMAIN t :
        (i < j /\ t[i] = t[j]) => j \notin KeptRows

\* C3: of two data rows with identical retained values (the same list of
\* values once the excluded columns are removed) the later one yields no
\* record, and the records are in the order of the rows they were built from.
C3_DuplicatesDroppedOrderKept ==
    Succeeded =>
        /\ LaterDuplicateDropped(RetainedValues)
        /\ Len(kept) = Len(result.data)
        /\ \A k \in 1..Len(kept) : \A m \in 1..Len(kept) :
               k < m => kept[k] < kept[m]
        /\ RecordsHoldRows(RetainedValues, ReturnedKeys)

\* The same line twice: one record, built from the first of the two rows.
C3_Witness ==
    /\ Succeeded
    /\ response.body = Chars("A,B\nab,c\nab,c")
    /\ kept = <<2>>
    /\ Len(result.data) = 1

\* Rows i and j have the same value in each of the n returned columns (a row
\* too short for a column has '' there).
SameInColumns(t, i, j, n) == \A idx \in 1..n : At(t[i], idx) = At(t[j], idx)

BlankDroppedOthersKept(t, n) ==
    \A i \in DOMAIN t :
        /\ AllBlank(t[i]) => i \notin KeptRows
        /\ (/\ ~AllBlank(t[i])
            /\ \A j \in DOMAIN t : j < i => ~SameInColumns(t, j, i, n))
           => i \in KeptRows

\* C4: a data row whose retained values are all empty or whitespace-only
\* yields no record, and a row with a non-empty retained value yields one
\* unless an earlier row has the same value in every retained column.
C4_BlankDroppedOthersKept ==
    Succeeded => BlankDroppedOthersKept(RetainedValues, Len(result.headers))

\* C5: the returned headers are the observed headers without the first
\* email-template header, the first id header and the first sheet-id header,
\* in the original order, and every record holds its row's values with the
\* same positions removed.
C5_ExcludedPositionsRemoved ==
    Succeeded =>
        /\ result.headers =
               Without(ObservedHeaders, RemovedPositions(ObservedHeaders))
        /\ RecordsHoldRows(RetainedValues, ReturnedKeys)

\* Four columns of which the last three are excluded: one header is left and
\* the record holds the first value of its row.
C5_Witness ==
    /\ Succeeded
    /\ response.body = Chars("Name,Campaign ID,sheetid,emailtemplate\nFoo,,abc123,w")
    /\ result.headers = <<Chars("Name")>>
    /\ Len(result.data) = 1
    /\ result.data[1][Chars("Name")] = Chars("Foo")

EmailTemplateHeaders(a) == {k \in 1..Len(a) : ContainsEmailTemplate(a[k])}

\* C6 as stated: no returned header contains 'email template' or
\* 'emailtemplate', whatever the CSV text.
C6_NoEmailTemplateHeader ==
    Succeeded => EmailTemplateHeaders(result.headers) = {}

FewerThan(returned, observed) ==
    /\ observed # {} => Cardinality(returned) < Cardinality(observed)
    /\ Cardinality(observed) <= 1 => returned = {}

\* C6, amended: the first observed header that contains 'email template' or
\* 'emailtemplate' is removed, so that fewer returned headers contain it
\* than observed headers do, and none when at most one observed header does.
C6_FirstEmailTemplateExcluded ==
    Succeeded => FewerThan(EmailTemplateHeaders(result.headers),
                           EmailTemplateHeaders(ObservedHeaders))

\* A sheet whose only email-template column is its last one.
C6_Witness ==
    /\ Succeeded
    /\ ObservedHeaders[Len(ObservedHeaders)] = Chars("emailtemplate")
    /\ result.headers = <<Chars("Name")>>

\* Each record carries the non-empty sheet-id cell of its row (the cell at
\* position sid of the row's cells, before any column is removed) under
\* '_sheetId', and no record has the key when the sheet has no such column.
SheetIdCarried(cells, sid) ==
    \A k \in 1..Len(result.data) :
        IF sid = 0 THEN SHEET_ID_KEY \notin DOMAIN result.data[k]
        ELSE At(cells[kept[k]], sid) # <<>> =>
                 /\ SHEET_ID_KEY \in DOMAIN result.data[k]
                 /\ result.data[k][SHEET_ID_KEY] = At(cells[kept[k]], sid)

NamedSheetIdAfter(headers, sid) ==
    \E q \in 1..Len(headers) : sid # 0 /\ sid < q /\ headers[q] = SHEET_ID_KEY

Validated == validation.pc = "done"

\* The positions of the headers equal to the display name.
ExactHeaders(displayName, hs) == {k \in 1..Len(hs) : hs[k] = displayName}

\* The positions of the headers equal to the display name ignoring case.
SameIgnoringCase(displayName, hs) ==
    {k \in 1..Len(hs) : toLowerCase(hs[k]) = toLowerCase(displayName)}

\* The header contains one of the aliases or is contained in one.
MatchesVariant(header, variations) ==
    \E v \in 1..Len(variations) :
        \/ includes(toLowerCase(header), toLowerCase(variations[v]))
        \/ includes(toLowerCase(variations[v]), toLowerCase(header))

VariantHeaders(variations, hs) ==
    {k \in 1..Len(hs) : MatchesVariant(hs[k], variations)}

\* r is what the tiers give: the display name when a header equals it, else
\* the first header equal to it ignoring case, else a header matching a
\* variant, and null when no tier matches.
TiersInPrecedence(displayName, exact, ci, variant, hs, r) ==
    IF exact # {} THEN r = displayName
    ELSE IF ci # {} THEN r = hs[FirstOf(ci)]
    ELSE IF variant # {} THEN r # Null /\ \E k \in variant : hs[k] = r
    ELSE r = Null

FieldInPrecedence(fld, variations, hs) ==
    TiersInPrecedence(fld.displayName,
                      ExactHeaders(fld.displayName, hs),
                      SameIgnoringCase(fld.displayName, hs),
                      VariantHeaders(variations, hs),
                      hs, findColumnHeader(fld.formKey, hs))

\* C11: for every canonical field findColumnHeader returns the display name
\* when an observed header equals it, otherwise the first observed header
\* equal to it ignoring case, otherwise (and only then) a header that
\* matches a variant, and null only when no tier matches.
C11_TiersInStrictPrecedence ==
    Validated =>
        \A f \in 1..Len(FORM_FIELDS) :
            FieldInPrecedence(FORM_FIELDS[f], FIELD_MAPPING[f],
                              validation.sheetHeaders)

\* The display names of the required fields for which findColumnHeader
\* returns no header, in schema order.
RequiredUnresolved(hs) ==
    map(LAMBDA fld : fld.displayName,
        SelectSeq(FORM_FIELDS,
                  LAMBDA fld : fld.required /\ findColumnHeader(fld.formKey, hs) = Null))

OptionalNames == {Chars("Notes"), Chars("Attachment"), Chars("Submission Date")}

\* C12: missingFields is the list, in schema order, of the display names of
\* the required fields for which findColumnHeader returns no header, and it
\* never holds Notes, Attachment or Submission Date.
C12_MissingAreRequiredUnresolved ==
    Validated =>
        /\ validation.report.missingFields =
               RequiredUnresolved(validation.sheetHeaders)
        /\ \A k \in 1..Len(validation.report.missingFields) :
               validation.report.missingFields[k] \notin OptionalNames

\* The specification's example: Campaign Name, Brand Name and Extra Col; the
\* nine other required fields are missing.
C12_Witness ==
    /\ Validated
    /\ validation.sheetHeaders =
           <<Chars("Campaign Name"), Chars("Brand Name"), Chars("Extra Col")>>
    /\ Len(validation.report.missingFields) = 9
    /\ validation.report.missingFields[1] = Chars("Influencers Followers")
    /\ validation.report.missingFields[9] = Chars("Platforms")

\* The observed headers equal to no display name, in column order.
NotDisplayNames(hs) ==
    SelectSeq(hs, LAMBDA h : \A f \in 1..Len(FORM_FIELDS) :
                                 FORM_FIELDS[f].displayName # h)

InSeq(x, a) == \E k \in 1..Len(a) : a[k] = x

\* The header differs from the field's display name only by case, or no
\* header equals the display name even ignoring case and this one matches a
\* variant.
MatchesOnlyLoosely(h, fld, variations, hs) ==
    /\ h # fld.displayName
    /\ \/ toLowerCase(h) = toLowerCase(fld.displayName)
       \/ /\ SameIgnoringCase(fld.displayName, hs) = {}
          /\ MatchesVariant(h, variations)

\* C13: extraFields is the list, in column order, of the observed headers
\* equal to no display name; so a header that differs from a display name
\* only by case, or matches it only by variant, is listed as extra while its
\* field is not listed as missing.
C13_ExtraAreNotDisplayNames ==
    Validated =>
        /\ validation.report.extraFields = NotDisplayNames(validation.sheetHeaders)
        /\ \A k \in 1..Len(validation.sheetHeaders) : \A f \in 1..Len(FORM_FIELDS) :
               MatchesOnlyLoosely(validation.sheetHeaders[k], FORM_FIELDS[f],
                                  FIELD_MAPPING[f], validation.sheetHeaders)
               => /\ InSeq(validation.sheetHeaders[k], validation.report.extraFields)
                  /\ ~InSeq(FORM_FIELDS[f].displayName,
                            validation.report.missingFields)

\* C14: isValid is true exactly when missingFields is empty, however many
\* extra fields the report lists.
C14_ValidIffNothingMissing ==
    Validated =>
        (validation.report.isValid <=> Len(validation.report.missingFields) = 0)

\* The template's header row with one more column: an extra field and a
\* valid report.
C14_Witness ==
    /\ Validated
    /\ validation.sheetHeaders = Append(EXPECTED_SHEET_HEADERS, Chars("Extra Col"))
    /\ validation.report.extraFields = <<Chars("Extra Col")>>
    /\ validation.report.isValid

(***************************************************************************)
(* Claims about the failure classes of fetchSheetData (checked under Spec) *)
(***************************************************************************)
\* The access-denied messages: of a non-success response, of an HTML body.
AccessDeniedErrors ==
    {<<"appears to be private or inaccessible">>, <<"appears to be private">>}

PointsAtAuthDomain(url) == includes(url, Chars("accounts.google.com"))

\* fetchSheetData has returned after a response that was not successful.
FailedResponse ==
    /\ fpc = "done"
    /\ response.kind = "response"
    /\ ~response.ok

BeginsWithHtmlMarker(text) ==
    \/ startsWith(toLowerCase(trim(text)), Chars("<!doctype"))
    \/ startsWith(toLowerCase(trim(text)), Chars("<html"))

\* fetchSheetData has returned after reading the body of a successful
\* response.
ReadBody ==
    /\ fpc = "done"
    /\ response.kind = "response"
    /\ response.ok

\* C16: when the body of a successful response begins with an HTML document
\* marker, the result is the access-denied error, and no header and no row
\* is parsed from the body.
C16_HtmlBodyIsAccessDenied ==
    (ReadBody /\ BeginsWithHtmlMarker(response.body)) =>
        /\ result.error \in AccessDeniedErrors
        /\ result.headers = <<>>
        /\ result.data = <<>>

NoDataError == <<"No data found">>

OnlyWhitespace(text) == \A k \in 1..Len(text) : text[k] \in WhiteSpace

\* The lines of the text that are not blank, in order.
NonBlankLines(text) ==
    SelectSeq(split(text, NEWLINE), LAMBDA l : ~OnlyWhitespace(l))

\* The result for a body of which lines are the non-blank lines: the no-data
\* error exactly when there is none; with a header line alone its headers,
\* no record and no error; never more records than data lines.
NoDataExactly(lines) ==
    /\ result.error = NoDataError <=> Len(lines) = 0
    /\ Len(lines) > 0 =>
           /\ result.error = <<>>
           /\ result.headers =
                  Without(Cells(lines[1]), RemovedPositions(Cells(lines[1])))
           /\ Len(result.data) <= Len(lines) - 1
    /\ Len(lines) = 1 => result.data = <<>>

\* C17: for a successful body that is not HTML the no-data error is reported
\* exactly when the body has no non-blank line; blank and whitespace-only
\* lines are discarded before the lines are tokenized, and a body with a
\* header line and no data line gives its headers, no record and no error.
C17_NoDataIffNoNonBlankLine ==
    (ReadBody /\ ~BeginsWithHtmlMarker(response.body)) =>
        NoDataExactly(NonBlankLines(response.body))

\* A header line between blank lines: its headers, no record, no error.
C17_Witness ==
    /\ ReadBody
    /\ response.body = Chars("\n  \nA,B\n\n")
    /\ result.error = <<>>
    /\ result.headers = <<Chars("A"), Chars("B")>>
    /\ result.data = <<>>

(***************************************************************************)
(* Claims about concurrent calls of fetchSheetData (checked under SpecRuns)*)
(***************************************************************************)
\* The call has returned after reading the body of a successful response.
CallReadBody(call) ==
    /\ call.pc = "done"
    /\ call.response.kind = "response"
    /\ call.response.ok

\* The call returned what a call on its own returns for its CSV text, and
\* its seen set holds the keys of its own rows only.
AsAlone(call, alone) ==
    /\ call.result = alone.result
    /\ call.seen = alone.seen

\* C18: each of two calls whose requests are outstanding together, whatever
\* the order of their steps, returns the headers and records it returns when
\* run alone, its seen set holding its own keys only; a step of one call
\* changes nothing of the other; and two calls on the same CSV text return
\* the same result.
C18_RunsDoNotInterfere ==
    /\ [](\A c \in Calls :
             CallReadBody(runs.calls[c]) =>
                 AsAlone(runs.calls[c], Ingest(runs.calls[c].response.body)))
    /\ [](\A c \in Calls : \A o \in Calls :
             (/\ CallReadBody(runs.calls[c])
              /\ CallReadBody(runs.calls[o])
              /\ runs.calls[c].response.body = runs.calls[o].response.body)
             => runs.calls[c].result = runs.calls[o].result)
    /\ [][\A c \in Calls : \A o \in Calls \ {c} :
              runs'.calls[c] # runs.calls[c] => runs'.calls[o] = runs.calls[o]]_vars

\* Both requests were outstanding together, both calls read the same text
\* with a repeated row, and each returned its one record.
C18_Witness ==
    /\ runs.overlapped
    /\ \A c \in Calls :
           /\ CallReadBody(runs.calls[c])
           /\ runs.calls[c].response.body = Chars("A,B\nab,c\nab,c")
           /\ Len(runs.calls[c].result.data) = 1
           /\ runs.calls[c].seen = {Chars("abc")}

(***************************************************************************)
(* Claims about the view page (checked under SpecView)                     *)
(***************************************************************************)
\* What the page shows.
Shown(v) == <<v.headers, v.data, v.error, v.loading>>

\* The effect e ends in this step.
Ends(e) ==
    /\ e <= Len(view.effects)
    /\ view.effects[e].pc # "done"
    /\ view'.effects[e].pc = "done"

\* C19: when an effect ends after it was torn down (the page unmounted, or a
\* later effect started in its place), nothing the page shows is updated
\* from it: headers, data, error and loading stay as they are.
C19_TornDownResultDiscarded ==
    [][\A e \in 1..MaxEffects :
           (Ends(e) /\ view.effects[e].tornDown) => Shown(view') = Shown(view)]_vars

(***************************************************************************)
(* Claims about anomalous lines (checked under Spec; the termination of    *)
(* parseCSVRow under SpecParseLive)                                        *)
(***************************************************************************)
\* Every call of parseCSVRow returns, whatever the line.
C20_ParseCompletes == <>(ppc = "done")

\* The body of a successful response has a non-blank line and is no HTML.
ReadCsvLines ==
    /\ ReadBody
    /\ ~BeginsWithHtmlMarker(response.body)
    /\ Len(NonBlankLines(response.body)) > 0

\* Every record holds the empty string under the key of each returned
\* header beyond the values of its row (t: the retained values of the rows,
\* keys: the keys of the returned headers).
MissingValuesEmpty(t, keys) ==
    \A k \in 1..Len(result.data) : \A idx \in 1..Len(keys) :
        idx > Len(t[kept[k]]) =>
            /\ keys[idx] \in DOMAIN result.data[k]
            /\ result.data[k][keys[idx]] = <<>>

\* parseCSVRow returns at least one field for every line of the body.
EveryLineParsed(rows) == \A i \in 1..Len(rows) : Len(parseCSVRow(rows[i])) >= 1

MissingValuesEmptyOrSheetId(t, keys, cells, sid) ==
    \A k \in 1..Len(result.data) : \A idx \in 1..Len(keys) :
        idx > Len(t[kept[k]]) =>
            /\ keys[idx] \in DOMAIN result.data[k]
            /\ \/ result.data[k][keys[idx]] = <<>>
               \/ /\ keys[idx] = SHEET_ID_KEY
                  /\ sid # 0
                  /\ result.data[k][keys[idx]] = At(cells[kept[k]], sid)

AtQuoteOutside ==
    /\ ppc = "loop"
    /\ scan.i <= Len(row)
    /\ ~scan.inQuotes
    /\ row[scan.i] = QUOTE

\* C21: a loop iteration that meets a double-quote while the scan is not
\* inside quotes switches the scan to inside-quotes, adds no character to
\* the current field and pushes no field (so that two adjacent double-quotes
\* at the start of a field leave the field empty).
C21_OpeningQuoteEmitsNothing ==
    [][AtQuoteOutside =>
           /\ scan'.inQuotes
           /\ scan'.current = scan.current
           /\ scan'.values = scan.values]_vars

(***************************************************************************)
(* Further claims about findColumnHeader (checked under SpecValidate)      *)
(***************************************************************************)
\* For each canonical field, the header findColumnHeader resolves it to.
Resolution(hs) ==
    [f \in 1..Len(FORM_FIELDS) |-> findColumnHeader(FORM_FIELDS[f].formKey, hs)]

AtMostOneField(resolved) ==
    \A f \in DOMAIN resolved : \A g \in DOMAIN resolved :
        (f # g /\ resolved[f] # Null) => resolved[f] # resolved[g]

\* C22: whatever the observed headers, no two distinct canonical fields are
\* resolved by findColumnHeader to the same observed header.
C22_HeaderClaimedByOneField ==
    Validated => AtMostOneField(Resolution(validation.sheetHeaders))

\* The header contains the alias or is contained in it, in lower case.
MatchesAlias(header, alias) ==
    \/ includes(toLowerCase(header), toLowerCase(alias))
    \/ includes(toLowerCase(alias), toLowerCase(header))

\* The first alias, in declaration order, that some header matches (0 when
\* there is none), and the first header, in column order, matching it.
FirstMatchedAlias(variations, hs) ==
    FirstOf({v \in 1..Len(variations) :
                 \E k \in 1..Len(hs) : MatchesAlias(hs[k], variations[v])})

FirstHeaderOfAlias(alias, hs) ==
    hs[FirstOf({k \in 1..Len(hs) : MatchesAlias(hs[k], alias)})]

VariantTierResult(variations, hs, v) ==
    IF v = 0 THEN Null ELSE FirstHeaderOfAlias(variations[v], hs)

\* The field is left to the variant tier: no header equals its display
\* name, exactly or ignoring case.
LeftToVariantTier(fld, hs) == SameIgnoringCase(fld.displayName, hs) = {}

\* C23: when a field is left to the variant tier, findColumnHeader returns
\* the first header, in column order, that matches the first alias, in
\* declaration order, that any header matches (a header matches an alias
\* when it contains the alias or is contained in it, in lower case).
C23_VariantTierInDeclarationOrder ==
    Validated =>
        \A f \in 1..Len(FORM_FIELDS) :
            LeftToVariantTier(FORM_FIELDS[f], validation.sheetHeaders) =>
                findColumnHeader(FORM_FIELDS[f].formKey, validation.sheetHeaders)
                    = VariantTierResult(FIELD_MAPPING[f], validation.sheetHeaders,
                          FirstMatchedAlias(FIELD_MAPPING[f], validation.sheetHeaders))

(***************************************************************************)
(* Further claims about fetchSheetData (checked under Spec)                *)
(***************************************************************************)
\* The last of the returned columns whose header maps to the same record key
\* as the column idx.
LastColumnOfKey(keys, idx) ==
    CHOOSE last \in 1..Len(keys) :
        /\ keys[last] = keys[idx]
        /\ \A other \in 1..Len(keys) : keys[other] = keys[idx] => other <= last

SharesKey(keys, idx) ==
    \E other \in 1..Len(keys) : other # idx /\ keys[other] = keys[idx]

\* The values of a row in the n returned columns, one after the other.
RECURSIVE Concatenated(_, _, _)
Concatenated(values, idx, n) ==
    IF idx > n THEN <<>>
    ELSE At(values, idx) \o Concatenated(values, idx + 1, n)

\* The keys the call has put in its set of seen keys.
SeenKeys == Ingest(response.body).seen

LaterColumnWins(t, keys) ==
    \A k \in 1..Len(result.data) : \A idx \in 1..Len(keys) :
        (SharesKey(keys, idx) /\ keys[idx] # SHEET_ID_KEY)
        => result.data[k][keys[idx]] = At(t[kept[k]], LastColumnOfKey(keys, idx))

KeysHoldEveryColumn(t, n) ==
    SeenKeys = {Concatenated(t[kept[k]], 1, n) : k \in 1..Len(kept)}

\* C24: when two returned headers map to the same record key, every record
\* holds under that key the value of the later column, and the key used for
\* duplicate detection is still made of the values of all the returned
\* columns, the overwritten one included.
C24_LaterColumnOverwrites ==
    Succeeded =>
        /\ LaterColumnWins(RetainedValues, ReturnedKeys)
        /\ KeysHoldEveryColumn(RetainedValues, Len(result.headers))

\* 'budget' and 'Budget' both map to the key 'Budget': the record holds the
\* second value, the key both.
C24_Witness ==
    /\ Succeeded
    /\ response.body = Chars("budget,Budget\nab,c")
    /\ ReturnedKeys = <<Chars("Budget"), Chars("Budget")>>
    /\ result.data = <<(Chars("Budget") :> Chars("c"))>>
    /\ SeenKeys = {Chars("abc")}

(***************************************************************************)
(* Claims about the campaign form (checked under SpecForm)                 *)
(***************************************************************************)
\* The webhook requests that have not settled.
InFlight ==
    {r \in DOMAIN form.requests : form.requests[r].pc \in {"fetching", "reading"}}

FlagsCleared == ~form.isSubmitting /\ ~form.isRequestInProgress

\* C25: at most one webhook request is in flight at any time (a submit made
\* while one is in progress sends none), and once no request is in flight
\* the in-progress flags are cleared, so that, the page rendered again, a
\* submit sends a request.
C25_OneRequestInFlight ==
    form.pc = "mounted" =>
        /\ Cardinality(InFlight) <= 1
        /\ InFlight = {} => FlagsCleared
        /\ (/\ InFlight = {}
            /\ form.rendered = Flags(form)
            /\ Len(form.requests) < MaxSubmits) => ENABLED FormSubmitSends

\* A submit was ignored while the first request was in flight; the request
\* has settled and a later submit has sent the second request.
C25_Witness ==
    /\ form.pc = "mounted"
    /\ Len(form.requests) = 2
    /\ form.requests[1].pc = "settled"
    /\ form.requests[2].pc = "fetching"
    /\ form.ignored = 1
    /\ form.submitError = Null
    /\ form.last = "sent"

(***************************************************************************)
(* Claims about the dashboard pages (checked under SpecDashLive)           *)
(***************************************************************************)
LoadStarted == dash.mounted /\ dash.pc \in {"fetching", "reading"}

LoadEnded == dash.mounted /\ ~dash.loading

\* The page shows the data and the headers of the CSV text it has read.
ShowsCompletedFetch ==
    /\ dash.error = Null
    /\ dash.response.kind = "response"
    /\ dash.response.ok
    /\ dash.data = DashIngest(dash.page, dash.response.body).data
    /\ dash.headers = DashIngest(dash.page, dash.response.body).headers

\* C26: on each dashboard page, once the load effect has started, loading
\* becomes false whatever the request produces (as long as the page stays
\* mounted), and when loading is false either error is set, or error is
\* null and data and headers are those of the fetch that has completed.
C26_LoadingEnds ==
    /\ LoadStarted ~> (LoadEnded \/ ~dash.mounted)
    /\ [](LoadEnded => (dash.error # Null \/ ShowsCompletedFetch))

\* The inline page after a status that is not a success: loading is false
\* and error is set.
C26_Witness ==
    /\ dash.page = "inline"
    /\ dash.pc = "done"
    /\ LoadEnded
    /\ dash.response.kind = "response"
    /\ dash.response.status = 404
    /\ dash.error = <<"Failed to fetch data from Google Sheets">>

\* C27: after a successful fetch every returned header is a key of every
\* returned record, and the record holds under it the value of its row in
\* that column.
C27_HeadersAreRecordKeys ==
    Succeeded =>
        \A k \in 1..Len(result.data) : \A idx \in 1..Len(result.headers) :
            /\ result.headers[idx] \in DOMAIN result.data[k]
            /\ (~SharesKey(ReturnedKeys, idx) /\ ReturnedKeys[idx] # SHEET_ID_KEY)
               => result.data[k][result.headers[idx]]
                      = At(RetainedValues[kept[k]], idx)

\* The data rows that pass the blank-row test and yield no record.
DiscardedAsDuplicate(t) == {i \in DOMAIN t : ~AllBlank(t[i]) /\ i \notin KeptRows}

\* C28: a data row is discarded as a duplicate only if an earlier row has
\* the same value in every returned column, column by column.
C28_DuplicateOnlyIfSameColumns ==
    Succeeded =>
        \A i \in DiscardedAsDuplicate(RetainedValues) :
            \E j \in DOMAIN RetainedValues :
                /\ j < i
                /\ SameInColumns(RetainedValues, j, i, Len(result.headers))

\* C29: every returned record has a non-empty value under the key of at
\* least one returned header.
C29_NoRecordWithoutVisibleValue ==
    Succeeded =>
        \A k \in 1..Len(result.data) :
            \E idx \in 1..Len(ReturnedKeys) :
                /\ ReturnedKeys[idx] \in DOMAIN result.data[k]
                /\ trim(result.data[k][ReturnedKeys[idx]]) # <<>>

(***************************************************************************)
(* Further claims about the view page (checked under SpecView)             *)
(***************************************************************************)
\* The page is mounted and no effect of it is outstanding or about to run.
ViewAtRest ==
    /\ view.pc = "mounted"
    /\ ~view.pending
    /\ \A e \in 1..Len(view.effects) : view.effects[e].pc = "done"

\* The headers and records that a successful fetch of the sheet can give.
TablesOf(sheetId) ==
    {<<ViewIngest(resp.body).headers, ViewIngest(resp.body).data>> :
         resp \in {r \in ViewResponses(sheetId) : r.ok /\ ViewIngest(r.body).ok}}

\* C30: once every request has settled, the headers and records the page
\* shows without an error are those of the sheet id requested last, in
\* whatever order the responses have arrived.
C30_LatestSheetShown ==
    (ViewAtRest /\ view.error = Null) =>
        <<view.headers, view.data>> \in TablesOf(view.sheetId)

====
